---------------------------- MODULE Spec2Model ----------------------------
(***************************************************************************)
(* Verification core of the GRANDPA light client:                          *)
(*   - grandpa/light-client/src/justification.rs                           *)
(*       GrandpaJustification::decode_and_verify_finalizes,                *)
(*       verify_with_voter_set, AncestryChain                              *)
(*   - light-clients/common/src/lib.rs                                     *)
(*       verify_membership, verify_non_membership                          *)
(*                                                                         *)
(* Abstractions.  A fixed-width field of the wire format (a hash, a block  *)
(* number, a signature, an authority id, ...) is one cell, a natural       *)
(* number; an encoding is a sequence of cells.  Hashing and signing are    *)
(* injective functions of what is hashed or signed (no collisions, no      *)
(* forgeries by accident), and a header's hash is larger than its parent   *)
(* hash, so parent links never form a cycle.  The vote-tallying oracle     *)
(* finality_grandpa::validate_commit is an external library: its verdict   *)
(* is a nondeterministic outcome of the call.                              *)
(***************************************************************************)
EXTENDS Integers, Sequences, FiniteSets, TLC

VARIABLES
    encoded,           \* decode_and_verify_finalizes: encoded
    finalized_target,  \* decode_and_verify_finalizes: finalized_target, <<hash, number>>
    set_id,            \* decode_and_verify_finalizes: set_id
    pc,                \* position of the running call
    justification,     \* the decoded GrandpaJustification (self)
    oracle,            \* outcome of finality_grandpa::validate_commit
    base_hash,         \* verify_with_voter_set: base_hash
    idx,               \* position of the precommit loop (1-based)
    visited_hashes,    \* verify_with_voter_set: visited_hashes
    result,            \* the value returned to the caller
    log,               \* the checks performed so far, in order
    trie_call,         \* verify_(non_)membership: prefix, proof, root, path, value
    membership,        \* what verify_membership returned for trie_call
    non_membership,    \* what verify_non_membership returned for trie_call
    ctx,               \* verify_delay_passed: ctx, the host's clocks and update index
    connection_end,    \* verify_delay_passed: connection_end
    delay_passed,      \* what the last verify_delay_passed returned, and when
    client_call,       \* GrandpaClient::verify_*: the arguments
    client_result,     \* what the GrandpaClient operation returned
    client_log,        \* the calls the GrandpaClient operation made, in order
    path_call,         \* two paths handed to the path builder
    path_strings,      \* the strings the path builder made of them
    ancestry_call,     \* AncestryChain::ancestry: the headers, base and block
    ancestry_walk,     \* AncestryChain::ancestry: current_hash, route, position
    ancestry_result,   \* what AncestryChain::ancestry returned
    digest_call,       \* find_*_change: the digest logs of the header
    scheduled_change,  \* what find_scheduled_change returned
    forced_change,     \* what find_forced_change returned
    previous,          \* an earlier call for the same justification, and its result
    overflow_checks,   \* whether the build traps on integer overflow
    undelivered,       \* Solana client: the flags of common_state, by kind
    notifications,     \* Solana client: the on_undelivered_sequences calls completed
    queried            \* Solana client: the last has_undelivered_sequences call

justification_vars == <<encoded, finalized_target, set_id, pc, justification, oracle,
                        base_hash, idx, visited_hashes, result, log>>

trie_vars == <<trie_call, membership, non_membership>>

delay_vars == <<ctx, connection_end, delay_passed>>

client_vars == <<client_call, client_result, client_log>>

path_vars == <<path_call, path_strings>>

ancestry_vars == <<ancestry_call, ancestry_walk, ancestry_result>>

digest_vars == <<digest_call, scheduled_change, forced_change>>

resubmit_vars == <<previous>>

build_vars == <<overflow_checks>>

solana_vars == <<undelivered, notifications, queried>>

\* The components added to the first five.
later_vars == <<ancestry_vars, digest_vars, resubmit_vars, build_vars, solana_vars>>

vars == <<justification_vars, trie_vars, delay_vars, client_vars, path_vars, later_vars>>

\* What the steps of one component leave alone: the other components.
not_justification_vars == <<trie_vars, delay_vars, client_vars, path_vars, later_vars>>

not_trie_vars == <<justification_vars, delay_vars, client_vars, path_vars, later_vars>>

not_delay_vars == <<justification_vars, trie_vars, client_vars, path_vars, later_vars>>

not_client_vars == <<justification_vars, trie_vars, path_vars, later_vars>>

not_path_vars == <<justification_vars, trie_vars, delay_vars, client_vars, later_vars>>

not_ancestry_vars ==
    <<justification_vars, trie_vars, delay_vars, client_vars, path_vars, digest_vars, resubmit_vars, build_vars, solana_vars>>

not_digest_vars ==
    <<justification_vars, trie_vars, delay_vars, client_vars, path_vars, ancestry_vars, resubmit_vars, build_vars, solana_vars>>

not_resubmit_vars ==
    <<trie_vars, delay_vars, client_vars, path_vars, ancestry_vars, digest_vars,
      build_vars, solana_vars>>

not_solana_vars ==
    <<justification_vars, trie_vars, delay_vars, client_vars, path_vars, ancestry_vars, digest_vars, resubmit_vars, build_vars>>

----------------------------------------------------------------------------
(* Bounds of the explored inputs *)

\* longest list of precommits in a generated commit
MaxPrecommits == 2
\* longest votes_ancestries list in a generated justification
MaxAncestry == 2
\* longest raw byte string fed to the decoder
MaxEncodedLen == 10
\* largest cell of a raw byte string
MaxCell == 1
\* number of precommits of the 3-of-4 scenario
ScenarioVotes == 3
\* most notifications of undelivered sequences a client is given
MaxNotifications == 2

----------------------------------------------------------------------------
(* Generic helpers *)

Range(s) == {s[i] : i \in 1..Len(s)}

SeqsUpTo(S, n) == UNION {[1..k -> S] : k \in 0..n}

\* An injective pairing of two naturals (Cantor).
Pair(a, b) == ((a + b) * (a + b + 1)) \div 2 + b

RECURSIVE Flatten(_)
Flatten(ss) == IF ss = <<>> THEN <<>> ELSE Head(ss) \o Flatten(Tail(ss))

----------------------------------------------------------------------------
(* Hashing and signing *)

\* Header::hash(): injective in the header's content, and larger than the
\* parent hash the header holds.
HeaderHash(header) == Pair(header.parent_hash, header.extra) + 1

\* The signature of authority id over (Message::Precommit(precommit), round, set_id).
Sign(id, precommit, round, sid) ==
    Pair(Pair(id, precommit.target_hash),
         Pair(precommit.target_number, Pair(round, sid)))

\* Mutant of check_message_signature: the authority set id is not part of
\* the signed payload, so a signature made for the previous set passes.
check_message_signature_any_set(precommit, id, signature, round, sid) ==
    \E s \in {sid, sid - 1} : signature = Sign(id, precommit, round, s)

\* sp_finality_grandpa::check_message_signature_with_buffer
check_message_signature(precommit, id, signature, round, sid) ==
    signature = Sign(id, precommit, round, sid)

----------------------------------------------------------------------------
(* The wire format: #[derive(Encode, Decode)] of GrandpaJustification.       *)
(* Fields are written in declaration order; a Vec is its length followed by *)
(* its items.                                                               *)

EncodeSignedPrecommit(signed) ==
    <<signed.precommit.target_hash, signed.precommit.target_number,
      signed.signature, signed.id>>

EncodeHeader(header) == <<header.parent_hash, header.extra>>

EncodePrecommits(items) ==
    <<Len(items)>> \o Flatten([i \in 1..Len(items) |-> EncodeSignedPrecommit(items[i])])

EncodeHeaders(items) ==
    <<Len(items)>> \o Flatten([i \in 1..Len(items) |-> EncodeHeader(items[i])])

Encode(j) ==
    <<j.round, j.commit.target_hash, j.commit.target_number>>
        \o EncodePrecommits(j.commit.precommits)
        \o EncodeHeaders(j.votes_ancestries)

DecodeSignedPrecommit(cells) ==
    [precommit |-> [target_hash |-> cells[1], target_number |-> cells[2]],
     signature |-> cells[3], id |-> cells[4]]

DecodeHeader(cells) == [parent_hash |-> cells[1], extra |-> cells[2]]

\* Reads a Vec<SignedPrecommit> from the front of `input`: fails when the
\* length or an item is cut short, leaves the rest unread.
DecodePrecommits(input) ==
    IF input = <<>> THEN [ok |-> FALSE, value |-> <<>>, rest |-> <<>>]
    ELSE LET n == Head(input)
             body == Tail(input)
         IN IF Len(body) < n * 4
            THEN [ok |-> FALSE, value |-> <<>>, rest |-> <<>>]
            ELSE [ok |-> TRUE,
                  value |-> [i \in 1..n |->
                      DecodeSignedPrecommit(SubSeq(body, (i - 1) * 4 + 1, i * 4))],
                  rest |-> SubSeq(body, n * 4 + 1, Len(body))]

\* Reads a Vec<Header> from the front of `input`, likewise.
DecodeHeaders(input) ==
    IF input = <<>> THEN [ok |-> FALSE, value |-> <<>>, rest |-> <<>>]
    ELSE LET n == Head(input)
             body == Tail(input)
         IN IF Len(body) < n * 2
            THEN [ok |-> FALSE, value |-> <<>>, rest |-> <<>>]
            ELSE [ok |-> TRUE,
                  value |-> [i \in 1..n |->
                      DecodeHeader(SubSeq(body, (i - 1) * 2 + 1, i * 2))],
                  rest |-> SubSeq(body, n * 2 + 1, Len(body))]

NoJustification ==
    [round |-> 0,
     commit |-> [target_hash |-> 0, target_number |-> 0, precommits |-> <<>>],
     votes_ancestries |-> <<>>]

\* GrandpaJustification::decode(&mut &*encoded): reads the fields from the
\* front of the input; what follows the last field is left unread.
Decode(input) ==
    IF Len(input) < 3 THEN [ok |-> FALSE, value |-> NoJustification, rest |-> <<>>]
    ELSE LET pre == DecodePrecommits(SubSeq(input, 4, Len(input)))
             anc == DecodeHeaders(pre.rest)
         IN IF pre.ok /\ anc.ok
            THEN [ok |-> TRUE,
                  value |-> [round |-> input[1],
                             commit |-> [target_hash |-> input[2],
                                         target_number |-> input[3],
                                         precommits |-> pre.value],
                             votes_ancestries |-> anc.value],
                  rest |-> anc.rest]
            ELSE [ok |-> FALSE, value |-> NoJustification, rest |-> <<>>]

----------------------------------------------------------------------------
(* Results and errors (sp_blockchain::Error) *)

Pending == [tag |-> "pending", variant |-> "", msg |-> "", value |-> NoJustification]

Ok(j) == [tag |-> "Ok", variant |-> "", msg |-> "", value |-> j]

Err(variant, msg) ==
    [tag |-> "Err", variant |-> variant, msg |-> msg, value |-> NoJustification]

\* The call does not return: a failed expect().
Panicked == [tag |-> "panic", variant |-> "", msg |-> "", value |-> NoJustification]

JustificationDecode == Err("JustificationDecode", "")

BadJustification(msg) == Err("BadJustification", msg)

InvalidCommitTarget == "invalid commit target in grandpa justification"

InvalidCommit == "invalid commit in grandpa justification"

InvalidSignature == "invalid signature for precommit in grandpa justification"

\* Mutant of InvalidAncestryProof: the message of the signature check.
InvalidAncestryProofAsSignature == InvalidSignature

InvalidAncestryProof == "invalid precommit ancestry proof in grandpa justification"

UnusedHeaders ==
    "invalid precommit ancestries in grandpa justification with unused headers"

----------------------------------------------------------------------------
(* AncestryChain *)

\* AncestryChain::new: the headers collected into a map keyed by their hash;
\* of two headers with one hash the later one stays.
AncestryChainNew(headers) ==
    [h \in {HeaderHash(headers[i]) : i \in 1..Len(headers)} |->
        headers[CHOOSE i \in 1..Len(headers) :
                    /\ HeaderHash(headers[i]) = h
                    /\ \A k \in (i + 1)..Len(headers) : HeaderHash(headers[k]) # h]]

\* The loop of AncestryChain::ancestry.
RECURSIVE AncestryLoop(_, _, _, _)
AncestryLoop(chain, base, current_hash, route) ==
    IF current_hash = base THEN [ok |-> TRUE, route |-> route]
    ELSE IF current_hash \in DOMAIN chain
         THEN AncestryLoop(chain, base, chain[current_hash].parent_hash,
                           Append(route, chain[current_hash].parent_hash))
         ELSE [ok |-> FALSE, route |-> <<>>]

\* Mutant of Pop: nothing is taken off the route.
PopNothing(route) == route

\* Vec::pop: drops the last element, if any.
Pop(route) == IF route = <<>> THEN route ELSE SubSeq(route, 1, Len(route) - 1)

\* Mutant of Ancestry: a hash without a header ends the walk like the base.
AncestryGapEndsWalk(chain, base, block) ==
    LET walk == AncestryLoop(chain, base, block, <<>>)
    IN IF walk.ok THEN [ok |-> TRUE, route |-> Pop(walk.route)]
       ELSE [ok |-> TRUE, route |-> <<>>]

\* AncestryChain::ancestry(base, block): ok = FALSE is Error::NotDescendent.
Ancestry(chain, base, block) ==
    LET walk == AncestryLoop(chain, base, block, <<>>)
    IN IF walk.ok THEN [ok |-> TRUE, route |-> Pop(walk.route)] ELSE walk

----------------------------------------------------------------------------
(* verify_with_voter_set *)

\* Mutant of BaseHash: of several precommits with the lowest number, the last
\* one.
BaseHashLastLowest(precommits) ==
    precommits[CHOOSE i \in 1..Len(precommits) :
                  /\ \A k \in 1..Len(precommits) :
                        precommits[i].precommit.target_number
                            <= precommits[k].precommit.target_number
                  /\ \A k \in (i + 1)..Len(precommits) :
                        precommits[k].precommit.target_number
                            > precommits[i].precommit.target_number
              ].precommit.target_hash

\* min_by_key(target_number) over the precommits: of several precommits with
\* the lowest number, the first one.
BaseHash(precommits) ==
    precommits[CHOOSE i \in 1..Len(precommits) :
                  /\ \A k \in 1..Len(precommits) :
                        precommits[i].precommit.target_number
                            <= precommits[k].precommit.target_number
                  /\ \A k \in 1..(i - 1) :
                        precommits[k].precommit.target_number
                            > precommits[i].precommit.target_number
              ].precommit.target_hash

\* The outcomes of finality_grandpa::validate_commit the caller tells apart:
\* Ok(result) with result.is_valid(), Ok(result) otherwise, Err(_).  A commit
\* without precommits is never valid.
ValidateCommitOutcomes(commit) ==
    IF commit.precommits = <<>> THEN {"invalid", "error"}
    ELSE {"valid", "invalid", "error"}

\* h.hash() of every header of votes_ancestries, collected into a set.
AncestryHashes(headers) == {HeaderHash(headers[i]) : i \in 1..Len(headers)}

\* Mutant of TargetMatches: the block number is not compared.
TargetMatchesHashOnly(commit, target) == commit.target_hash = target[1]

\* The comparison of decode_and_verify_finalizes: tuples of (hash, number).
TargetMatches(commit, target) ==
    <<commit.target_hash, commit.target_number>> = target

\* Mutant of CommitAccepted: is_valid() is not asked.
CommitAcceptedAnyOk(outcome) == outcome # "error"

\* Ok(ref result) if result.is_valid()
CommitAccepted(outcome) == outcome = "valid"

\* Mutant of IsBaseTarget: the walk is not skipped for the base.
NeverBaseTarget(base, signed) == FALSE

\* base_hash == signed.precommit.target_hash: the precommit needs no walk.
IsBaseTarget(base, signed) == base = signed.precommit.target_hash

\* Mutant of HeadersMatch: headers no precommit needs are let through.
HeadersMatchUnusedAllowed(visited, headers) == visited \subseteq AncestryHashes(headers)

\* Mutant of HeadersMatch: the headers are counted, not collected.
HeadersMatchCounted(visited, headers) ==
    /\ Cardinality(visited) = Len(headers)
    /\ visited = AncestryHashes(headers)

\* visited_hashes != ancestry_hashes is the error.
HeadersMatch(visited, headers) == visited = AncestryHashes(headers)

Logged(check, at) == [check |-> check, at |-> at]

\* decode_and_verify_finalizes, the decoding
DecodeStep ==
    /\ pc = "decode"
    /\ LET d == Decode(encoded)
       IN IF d.ok
          THEN /\ justification' = d.value
               /\ pc' = "target"
               /\ result' = result
          ELSE /\ justification' = justification
               /\ pc' = "done"
               /\ result' = JustificationDecode
    /\ log' = Append(log, Logged("decode", 0))
    /\ UNCHANGED not_justification_vars
    /\ UNCHANGED <<encoded, finalized_target, set_id, oracle, base_hash, idx,
                   visited_hashes>>

\* decode_and_verify_finalizes, the comparison with finalized_target
TargetStep ==
    /\ pc = "target"
    /\ IF ~TargetMatches(justification.commit, finalized_target)
       THEN /\ pc' = "done"
            /\ result' = BadJustification(InvalidCommitTarget)
       ELSE /\ pc' = "validate_commit"
            /\ result' = result
    /\ log' = Append(log, Logged("target", 0))
    /\ UNCHANGED not_justification_vars
    /\ UNCHANGED <<encoded, finalized_target, set_id, justification, oracle,
                   base_hash, idx, visited_hashes>>

\* verify_with_voter_set up to the precommit loop: validate_commit over the
\* ancestry chain, then the base hash.
ValidateCommitStep ==
    /\ pc = "validate_commit"
    /\ \E outcome \in ValidateCommitOutcomes(justification.commit) :
          /\ oracle' = outcome
          /\ IF CommitAccepted(outcome) /\ justification.commit.precommits = <<>>
             THEN \* .expect(..): min_by_key of no precommits is None
                  /\ base_hash' = base_hash
                  /\ idx' = idx
                  /\ pc' = "done"
                  /\ result' = Panicked
             ELSE IF CommitAccepted(outcome)
             THEN /\ base_hash' = BaseHash(justification.commit.precommits)
                  /\ idx' = 1
                  /\ pc' = "precommits"
                  /\ result' = result
             ELSE /\ base_hash' = base_hash
                  /\ idx' = idx
                  /\ pc' = "done"
                  /\ result' = BadJustification(InvalidCommit)
    /\ visited_hashes' = {}
    /\ log' = Append(log, Logged("validate_commit", 0))
    /\ UNCHANGED not_justification_vars
    /\ UNCHANGED <<encoded, finalized_target, set_id, justification>>

\* Mutant of PrecommitStep: a precommit whose target is the base is passed
\* over before its signature is looked at.
PrecommitStepBaseUnchecked ==
    /\ pc = "precommits"
    /\ idx <= Len(justification.commit.precommits)
    /\ LET signed == justification.commit.precommits[idx]
           chain == AncestryChainNew(justification.votes_ancestries)
           walk == Ancestry(chain, base_hash, signed.precommit.target_hash)
       IN IF IsBaseTarget(base_hash, signed)
          THEN /\ idx' = idx + 1
               /\ UNCHANGED <<pc, result, visited_hashes, log>>
          ELSE IF ~check_message_signature(signed.precommit, signed.id,
                                           signed.signature, justification.round, set_id)
          THEN /\ pc' = "done"
               /\ result' = BadJustification(InvalidSignature)
               /\ log' = Append(log, Logged("signature", idx))
               /\ UNCHANGED <<idx, visited_hashes>>
          ELSE IF walk.ok
          THEN /\ visited_hashes' = visited_hashes
                    \cup {signed.precommit.target_hash} \cup Range(walk.route)
               /\ idx' = idx + 1
               /\ log' = log \o <<Logged("signature", idx), Logged("ancestry", idx)>>
               /\ UNCHANGED <<pc, result>>
          ELSE /\ pc' = "done"
               /\ result' = BadJustification(InvalidAncestryProof)
               /\ log' = log \o <<Logged("signature", idx), Logged("ancestry", idx)>>
               /\ UNCHANGED <<idx, visited_hashes>>
    /\ UNCHANGED not_justification_vars
    /\ UNCHANGED <<encoded, finalized_target, set_id, justification, oracle,
                   base_hash>>

\* verify_with_voter_set, one turn of the loop over the precommits
PrecommitStep ==
    /\ pc = "precommits"
    /\ idx <= Len(justification.commit.precommits)
    /\ LET signed == justification.commit.precommits[idx]
           chain == AncestryChainNew(justification.votes_ancestries)
           walk == Ancestry(chain, base_hash, signed.precommit.target_hash)
       IN IF ~check_message_signature(signed.precommit, signed.id,
                                      signed.signature, justification.round, set_id)
          THEN /\ pc' = "done"
               /\ result' = BadJustification(InvalidSignature)
               /\ log' = Append(log, Logged("signature", idx))
               /\ UNCHANGED <<idx, visited_hashes>>
          ELSE IF IsBaseTarget(base_hash, signed)
          THEN /\ idx' = idx + 1
               /\ log' = Append(log, Logged("signature", idx))
               /\ UNCHANGED <<pc, result, visited_hashes>>
          ELSE IF walk.ok
          THEN /\ visited_hashes' = visited_hashes
                    \cup {signed.precommit.target_hash} \cup Range(walk.route)
               /\ idx' = idx + 1
               /\ log' = log \o <<Logged("signature", idx), Logged("ancestry", idx)>>
               /\ UNCHANGED <<pc, result>>
          ELSE /\ pc' = "done"
               /\ result' = BadJustification(InvalidAncestryProof)
               /\ log' = log \o <<Logged("signature", idx), Logged("ancestry", idx)>>
               /\ UNCHANGED <<idx, visited_hashes>>
    /\ UNCHANGED not_justification_vars
    /\ UNCHANGED <<encoded, finalized_target, set_id, justification, oracle,
                   base_hash>>

\* Mutant of AncestriesStep: the precommits are drained from the
\* justification as it is returned.
AncestriesStepDraining ==
    /\ pc = "precommits"
    /\ idx > Len(justification.commit.precommits)
    /\ pc' = "done"
    /\ result' = IF ~HeadersMatch(visited_hashes, justification.votes_ancestries)
                 THEN BadJustification(UnusedHeaders)
                 ELSE Ok(justification)
    /\ justification' = [justification EXCEPT !.commit.precommits = <<>>]
    /\ log' = Append(log, Logged("ancestries", 0))
    /\ UNCHANGED not_justification_vars
    /\ UNCHANGED <<encoded, finalized_target, set_id, oracle, base_hash, idx,
                   visited_hashes>>

\* verify_with_voter_set after the loop: the header set against the visited
\* hashes, and the return through decode_and_verify_finalizes.
AncestriesStep ==
    /\ pc = "precommits"
    /\ idx > Len(justification.commit.precommits)
    /\ pc' = "done"
    /\ result' = IF ~HeadersMatch(visited_hashes, justification.votes_ancestries)
                 THEN BadJustification(UnusedHeaders)
                 ELSE Ok(justification)
    /\ log' = Append(log, Logged("ancestries", 0))
    /\ UNCHANGED not_justification_vars
    /\ UNCHANGED <<encoded, finalized_target, set_id, justification, oracle,
                   base_hash, idx, visited_hashes>>

\* Mutant of Target: the pair in the order of finalized_target.
TargetHashFirst(j) == <<j.commit.target_hash, j.commit.target_number>>

\* GrandpaJustification::target
Target(j) == <<j.commit.target_number, j.commit.target_hash>>

Next ==
    \/ DecodeStep
    \/ TargetStep
    \/ ValidateCommitStep
    \/ PrecommitStep
    \/ AncestriesStep

----------------------------------------------------------------------------
(* light-clients/common/src/lib.rs: proofs against a commitment root.      *)
(*                                                                         *)
(* A trie is the set of its [key, value] entries and its root is an        *)
(* injective hash of that set.  A proof (the Vec<Vec<u8>> of nodes handed  *)
(* to sp_trie::verify_trie_proof) describes a trie: the entries it         *)
(* reveals, with the value in the node or omitted from it for the verifier *)
(* to fill in, and the entries it hides behind hash references.            *)

\* A commitment root must have this many bytes.
RootLength == 32

\* Values are the cells 1..MaxValue; 0 is the empty value.
MaxValue == 2

\* The digits of a root: 0 for no entry at a key, value + 1 for an entry.
Radix == MaxValue + 2

\* Mutant of StorageKey: the path's bytes are not appended.
StorageKeyPrefixOnly(prefix, path) == Pair(prefix, 0)

\* CommitmentPrefix bytes followed by the path's bytes.  A CommitmentPrefix is
\* never empty: prefixes are the cells from 1 on.
StorageKey(prefix, path) == Pair(prefix, path)

\* ChildInfo::new_default(prefix).prefixed_storage_key(): the marker
\* ":child_storage:default:" (cell 0) followed by the prefix.
PrefixedStorageKey(prefix) == Pair(0, prefix)

\* Keys are the numbers below KeyLimit.
KeyLimit == 2048

\* The root hash of a trie, injective in the set of entries: the entries in
\* the order of their keys, each a digit of the hash.
RECURSIVE TrieRoot(_)
TrieRoot(entries) ==
    IF entries = {} THEN 0
    ELSE LET e == CHOOSE x \in entries : \A y \in entries : y.key <= x.key
         IN (e.key * Radix + e.value + 1) + KeyLimit * Radix * TrieRoot(entries \ {e})

Some(v) == [some |-> TRUE, value |-> v]

None == [some |-> FALSE, value |-> 0]

VerifyOk == [tag |-> "Ok", root |-> 0]

VerifyError(kind) == [tag |-> kind, root |-> 0]

\* sp_trie::VerifyError::RootMismatch carries the root the verifier computed
RootMismatch(computed) == [tag |-> "RootMismatch", root |-> computed]

\* How a proof presents a key: "omitted" (a revealed node whose value is left
\* for the verifier), "inline" (a revealed node with its value), "hashed"
\* (behind a hash reference the proof does not open) or "absent".
Lookup(proof, key) ==
    IF \E e \in proof.revealed : e.key = key
    THEN IF (CHOOSE e \in proof.revealed : e.key = key).omitted
         THEN "omitted" ELSE "inline"
    ELSE IF \E e \in proof.hidden : e.key = key THEN "hashed" ELSE "absent"

\* The trie a proof describes once the verifier has put the item's value
\* in the node of the item's key.
Filled(proof, key, item) ==
    {[key |-> e.key,
      value |-> IF ~e.omitted THEN e.value
                ELSE IF e.key = key THEN item.value ELSE 0] : e \in proof.revealed}
        \cup proof.hidden

\* sp_trie::verify_trie_proof(root, proof, [(key, item)]): the nodes must be
\* well formed and lead to the key; the node of the key must leave the value
\* out when a value is given and must not exist when none is; the root of
\* the trie filled with the item must be the root given.
VerifyTrieProof(root, proof, key, item) ==
    LET found == Lookup(proof, key)
        computed == TrieRoot(Filled(proof, key, item))
    IN IF proof.malformed THEN VerifyError("DecodeError")
       ELSE IF found = "hashed" THEN VerifyError("ExtraneousHashReference")
       ELSE IF found = "inline" THEN VerifyError("ExtraneousValue")
       ELSE IF (found = "omitted") # item.some THEN VerifyError("ValueMismatch")
       ELSE IF computed # root THEN RootMismatch(computed)
       ELSE VerifyOk

\* codec::Decode of IbcProof from the proof bytes
DecodeIbcProof(bytes) ==
    [ok |-> bytes.decodes,
     child_trie_proof |-> bytes.child_trie_proof,
     child_trie_root_proof |-> bytes.child_trie_root_proof]

NotCalled == [tag |-> "pending", msg |-> ""]

OkUnit == [tag |-> "Ok", msg |-> ""]

\* anyhow!(msg)
Anyhow(msg) == [tag |-> "Err", msg |-> msg]

InvalidRootLength == "invalid commitment root length"

ProofDecodeFailed == "Failed to decode proof nodes for path"

UnexpectedChildTrieRoot == "Unexpected child trie root"

ChildRootExtractionFailed == "Child root extraction failed"

VerificationFailed == "verification failed"

ChildTrieRootVerificationFailed == "child trie root verification failed"

ChildTrieVerificationFailed == "child trie verification failed"

\* Mutant of EarlyReturn: the proof bytes are decoded before the length of the
\* root is looked at.
EarlyReturnDecodeFirst(root, ibc_proof) ==
    IF ~ibc_proof.ok THEN Anyhow(ProofDecodeFailed)
    ELSE IF root.len # RootLength THEN Anyhow(InvalidRootLength)
    ELSE OkUnit

\* verify_membership and verify_non_membership before the trie checks: the
\* length of the root, then the decoding of the proof bytes.  OkUnit when
\* neither returns.
EarlyReturn(root, ibc_proof) ==
    IF root.len # RootLength THEN Anyhow(InvalidRootLength)
    ELSE IF ~ibc_proof.ok THEN Anyhow(ProofDecodeFailed)
    ELSE OkUnit

\* Mutant of LeafProofRoot: the leaf proof is checked under the main root.
LeafProofUnderMainRoot(root, first) == root

\* verify_membership: the root the leaf proof is checked under is the one the
\* first check reports in its RootMismatch.
LeafProofRoot(root, first) == first.root

verify_membership(prefix, proof, root, path, value) ==
    IF EarlyReturn(root, DecodeIbcProof(proof)) # OkUnit
    THEN EarlyReturn(root, DecodeIbcProof(proof))
    ELSE LET key == StorageKey(prefix, path)
             ibc_proof == DecodeIbcProof(proof)
             trie_key == PrefixedStorageKey(prefix)
             first == VerifyTrieProof(root.hash, ibc_proof.child_trie_root_proof,
                                      trie_key, Some(value))
         IN IF first.tag = "Ok" THEN Anyhow(UnexpectedChildTrieRoot)
            ELSE IF first.tag # "RootMismatch" THEN Anyhow(ChildRootExtractionFailed)
            ELSE IF VerifyTrieProof(LeafProofRoot(root.hash, first),
                                    ibc_proof.child_trie_proof, key, Some(value)).tag = "Ok"
            THEN OkUnit
            ELSE Anyhow(VerificationFailed)

\* Mutant of NonMembershipMatch: the result of the leaf check is not looked at.
NonMembershipMatchFirstOnly(verify_child_trie_root_result, verify_child_trie_result) ==
    IF verify_child_trie_root_result.tag # "Ok"
    THEN Anyhow(ChildTrieRootVerificationFailed)
    ELSE OkUnit

\* Mutant of NonMembershipMatch: neither result is looked at.
NonMembershipMatchNoCheck(verify_child_trie_root_result, verify_child_trie_result) ==
    OkUnit

\* verify_non_membership: the match on the pair of results
NonMembershipMatch(verify_child_trie_root_result, verify_child_trie_result) ==
    IF verify_child_trie_root_result.tag = "Ok" /\ verify_child_trie_result.tag = "Ok"
    THEN OkUnit
    ELSE IF verify_child_trie_root_result.tag # "Ok"
    THEN Anyhow(ChildTrieRootVerificationFailed)
    ELSE Anyhow(ChildTrieVerificationFailed)

verify_non_membership(prefix, proof, root, path) ==
    IF EarlyReturn(root, DecodeIbcProof(proof)) # OkUnit
    THEN EarlyReturn(root, DecodeIbcProof(proof))
    ELSE LET key == StorageKey(prefix, path)
             ibc_proof == DecodeIbcProof(proof)
             trie_key == PrefixedStorageKey(prefix)
         IN NonMembershipMatch(
                     VerifyTrieProof(root.hash, ibc_proof.child_trie_root_proof,
                                     trie_key, None),
                     VerifyTrieProof(root.hash, ibc_proof.child_trie_proof, key, None))

\* A light client calls verify_membership with the inputs of trie_call.
VerifyMembership ==
    /\ membership = NotCalled
    /\ membership' = verify_membership(trie_call.prefix, trie_call.proof, trie_call.root,
                                       trie_call.path, trie_call.value)
    /\ UNCHANGED <<trie_call, non_membership>>
    /\ UNCHANGED not_trie_vars

\* A light client calls verify_non_membership with the inputs of trie_call.
VerifyNonMembership ==
    /\ non_membership = NotCalled
    /\ non_membership' = verify_non_membership(trie_call.prefix, trie_call.proof,
                                               trie_call.root, trie_call.path)
    /\ UNCHANGED <<trie_call, membership>>
    /\ UNCHANGED not_trie_vars

NextTrie ==
    \/ VerifyMembership
    \/ VerifyNonMembership

----------------------------------------------------------------------------
(* light-clients/common/src/lib.rs: verify_delay_passed.                   *)
(*                                                                         *)
(* A Timestamp is a number of nanoseconds in 0..MaxTime, a Height a block  *)
(* number.  ctx holds the host's clocks and, for the client and height of  *)
(* the call, what client_update_time and client_update_height return and   *)
(* what block_delay returns for the connection's delay period.             *)

\* The largest Timestamp (the width of the nanosecond counter).
MaxTime == 3

\* The host's height does not go beyond this.
MaxHeight == 2

TimestampOverflowed == "Timestamp overflowed!"

NotEnoughTime == "Not enough time elapsed"

NotEnoughBlocks == "Not enough blocks elapsed"

\* the error of ctx.client_update_time, through anyhow::Error::msg
ClientUpdateTimeError == "client update time not found"

\* the error of ctx.client_update_height, through anyhow::Error::msg
ClientUpdateHeightError == "client update height not found"

\* Timestamp + Duration: an error when the sum does not fit.
TimestampAdd(time, duration) ==
    [ok |-> time + duration <= MaxTime, value |-> time + duration]

\* The width of a height (u64 in the code), scaled down.
HeightBits == 4

HeightModulus == 2 ^ HeightBits

\* The panic of an integer overflow in a build that traps on it.
DelayPanicked == [tag |-> "panic", msg |-> "attempt to add with overflow"]

\* processed_height.add(delay_period_blocks): an addition of u64 that returns
\* no error.  A sum out of range traps in a build with overflow checks and
\* wraps in a build without.
HeightAdd(height, delta) ==
    [panic |-> overflow_checks /\ height + delta >= HeightModulus,
     value |-> (height + delta) % HeightModulus]

\* Mutant of TimeElapsed: the earliest time itself is not accepted.
TimeElapsedStrictly(current_time, earliest_time) == current_time > earliest_time

\* verify_delay_passed: current_time == earliest_time || current_time.after(&earliest_time)
TimeElapsed(current_time, earliest_time) ==
    current_time = earliest_time \/ current_time > earliest_time

\* Mutant of BlocksElapsed: only the earliest height itself is accepted.
BlocksElapsedExactly(current_height, earliest_height) == current_height = earliest_height

\* verify_delay_passed: !(current_height < earliest_height)
BlocksElapsed(current_height, earliest_height) == ~(current_height < earliest_height)

verify_delay_passed(context, height, conn) ==
    LET current_time == context.host_timestamp
        current_height == context.host_height
        processed_time == context.client_update_time
        processed_height == context.client_update_height
        delay_period_time == conn.delay_period
        delay_period_blocks == context.block_delay
        earliest_time == TimestampAdd(processed_time.value, delay_period_time)
        earliest_height == HeightAdd(processed_height.value, delay_period_blocks)
    IN IF ~processed_time.found THEN Anyhow(ClientUpdateTimeError)
       ELSE IF ~processed_height.found THEN Anyhow(ClientUpdateHeightError)
       ELSE IF ~earliest_time.ok THEN Anyhow(TimestampOverflowed)
       ELSE IF ~TimeElapsed(current_time, earliest_time.value) THEN Anyhow(NotEnoughTime)
       ELSE IF earliest_height.panic THEN DelayPanicked
       ELSE IF ~BlocksElapsed(current_height, earliest_height.value)
            THEN Anyhow(NotEnoughBlocks)
       ELSE OkUnit

\* The host's clock moves on.
AdvanceTime ==
    /\ ctx.host_timestamp < MaxTime
    /\ ctx' = [ctx EXCEPT !.host_timestamp = @ + 1]
    /\ UNCHANGED <<connection_end, delay_passed>>
    /\ UNCHANGED not_delay_vars

\* The host produces a block.
AdvanceHeight ==
    /\ ctx.host_height < MaxHeight
    /\ ctx' = [ctx EXCEPT !.host_height = @ + 1]
    /\ UNCHANGED <<connection_end, delay_passed>>
    /\ UNCHANGED not_delay_vars

\* No verify_delay_passed has returned yet.
DelayNotChecked == [result |-> NotCalled, time |-> 0, height |-> 0]

\* A caller checks, or checks again, whether the delay has passed.
VerifyDelayPassed ==
    /\ delay_passed' = [result |-> verify_delay_passed(ctx, 1, connection_end),
                        time |-> ctx.host_timestamp, height |-> ctx.host_height]
    /\ UNCHANGED <<ctx, connection_end>>
    /\ UNCHANGED not_delay_vars

NextDelay ==
    \/ AdvanceTime
    \/ AdvanceHeight
    \/ VerifyDelayPassed

----------------------------------------------------------------------------
(* ibc ics24_host::path: the Path variants the light client builds and     *)
(* their canonical strings.  A string is the sequence of its segments, the *)
(* parts between the slashes; identifiers hold no slash.                   *)

ClientStatePath(client_id) == [kind |-> "ClientState", ids |-> <<client_id>>]

ClientConsensusStatePath(client_id, epoch, height) ==
    [kind |-> "ClientConsensusState",
     ids |-> <<client_id, ToString(epoch), ToString(height)>>]

ConnectionsPath(connection_id) == [kind |-> "Connections", ids |-> <<connection_id>>]

ChannelEndsPath(port_id, channel_id) ==
    [kind |-> "ChannelEnds", ids |-> <<port_id, channel_id>>]

SeqRecvsPath(port_id, channel_id) ==
    [kind |-> "SeqRecvs", ids |-> <<port_id, channel_id>>]

CommitmentsPath(port_id, channel_id, sequence) ==
    [kind |-> "Commitments", ids |-> <<port_id, channel_id, ToString(sequence)>>]

AcksPath(port_id, channel_id, sequence) ==
    [kind |-> "Acks", ids |-> <<port_id, channel_id, ToString(sequence)>>]

ReceiptsPath(port_id, channel_id, sequence) ==
    [kind |-> "Receipts", ids |-> <<port_id, channel_id, ToString(sequence)>>]

\* ports/{port}/channels/{channel}
PortAndChannel(ids) == <<"ports", ids[1], "channels", ids[2]>>

\* Path::to_string
PathString(path) ==
    CASE path.kind = "ClientState" -> <<"clients", path.ids[1], "clientState">>
      [] path.kind = "ClientConsensusState" ->
            <<"clients", path.ids[1], "consensusStates", path.ids[2] \o "-" \o path.ids[3]>>
      [] path.kind = "Connections" -> <<"connections", path.ids[1]>>
      [] path.kind = "ChannelEnds" -> <<"channelEnds">> \o PortAndChannel(path.ids)
      [] path.kind = "SeqRecvs" -> <<"nextSequenceRecv">> \o PortAndChannel(path.ids)
      [] path.kind = "Commitments" ->
            <<"commitments">> \o PortAndChannel(path.ids) \o <<"sequences", path.ids[3]>>
      [] path.kind = "Acks" ->
            <<"acks">> \o PortAndChannel(path.ids) \o <<"sequences", path.ids[3]>>
      [] path.kind = "Receipts" ->
            <<"receipts">> \o PortAndChannel(path.ids) \o <<"sequences", path.ids[3]>>

\* The largest packet sequence, revision number and revision height of a
\* generated path.
MaxSequence == 2

ClientIds == {"10-grandpa-0", "clientState"}

ConnectionIds == {"connection-0", "connections"}

PortIds == {"transfer", "ports"}

ChannelIds == {"channel-0", "channels"}

\* The paths of the identifiers above.
Paths ==
    {ClientStatePath(c) : c \in ClientIds}
        \cup {ClientConsensusStatePath(c, e, h) :
                c \in ClientIds, e \in 0..1, h \in 1..MaxSequence}
        \cup {ConnectionsPath(c) : c \in ConnectionIds}
        \cup {ChannelEndsPath(p, c) : p \in PortIds, c \in ChannelIds}
        \cup {SeqRecvsPath(p, c) : p \in PortIds, c \in ChannelIds}
        \cup {CommitmentsPath(p, c, n) : p \in PortIds, c \in ChannelIds, n \in 1..MaxSequence}
        \cup {AcksPath(p, c, n) : p \in PortIds, c \in ChannelIds, n \in 1..MaxSequence}
        \cup {ReceiptsPath(p, c, n) : p \in PortIds, c \in ChannelIds, n \in 1..MaxSequence}

RECURSIVE Enumerate(_)
Enumerate(S) ==
    IF S = {} THEN <<>>
    ELSE LET x == CHOOSE y \in S : TRUE IN <<x>> \o Enumerate(S \ {x})

\* The strings of the paths, numbered: the number of a string is the cell
\* that stands for its bytes in a storage key.
PathStrings == Enumerate({PathString(p) : p \in Paths})

\* path.to_string() as the bytes appended to the prefix
PathBytes(path) ==
    CHOOSE i \in 1..Len(PathStrings) : PathStrings[i] = PathString(path)

\* The path builder is handed the two paths of path_call.
BuildPaths ==
    /\ path_strings = <<>>
    /\ path_strings' = [a |-> PathString(path_call.a), b |-> PathString(path_call.b),
                        key_a |-> StorageKey(path_call.prefix, PathBytes(path_call.a)),
                        key_b |-> StorageKey(path_call.prefix, PathBytes(path_call.b))]
    /\ UNCHANGED path_call
    /\ UNCHANGED not_path_vars

NextPath == BuildPaths

----------------------------------------------------------------------------
(* light-clients/ics10-grandpa/src/client_def.rs: the verification         *)
(* operations of GrandpaClient.  An operation is a chain of calls joined   *)
(* by `?`: it returns the first error, or Ok(()) after the last call.      *)

Expired == "Expired"

\* ClientState::verify_height: the height must not be beyond the height the
\* client has verified.
verify_height(client_state, height) ==
    IF height > client_state.latest_height THEN Anyhow(Expired) ELSE OkUnit

\* A call an operation makes, with its arguments and what it returned.
Called(name, prefix, path, value, returned) ==
    [call |-> name, prefix |-> prefix, path |-> path, value |-> value,
     result |-> returned]

\* client_state.verify_height(height)
HeightCall(call) ==
    Called("verify_height", 0, <<>>, 0, verify_height(call.client_state, call.height))

\* verify_delay_passed(ctx, height, connection_end)
DelayCall(context, call, conn) ==
    Called("verify_delay_passed", 0, <<>>, 0,
           verify_delay_passed(context, call.height, conn))

\* verify_membership(prefix, proof, root, path, value)
MembershipCall(prefix, call, path, value) ==
    Called("verify_membership", prefix, PathString(path), value,
           verify_membership(prefix, call.proof, call.root, PathBytes(path), value))

\* verify_non_membership(prefix, proof, root, path)
NonMembershipCall(prefix, call, path) ==
    Called("verify_non_membership", prefix, PathString(path), 0,
           verify_non_membership(prefix, call.proof, call.root, PathBytes(path)))

\* The calls are made in order up to the first that fails.
Chain(calls) ==
    LET failed == {i \in 1..Len(calls) : calls[i].result # OkUnit}
        last == IF failed = {} THEN Len(calls)
                ELSE CHOOSE i \in failed : \A j \in failed : i <= j
    IN [result |-> calls[last].result, log |-> SubSeq(calls, 1, last)]

verify_client_consensus_state(call) ==
    Chain(<<HeightCall(call),
            MembershipCall(call.prefix, call,
                ClientConsensusStatePath(call.client_id,
                    call.consensus_height.revision_number,
                    call.consensus_height.revision_height),
                call.value)>>)

verify_connection_state(call) ==
    Chain(<<HeightCall(call),
            MembershipCall(call.prefix, call, ConnectionsPath(call.connection_id),
                           call.value)>>)

verify_channel_state(call) ==
    Chain(<<HeightCall(call),
            MembershipCall(call.prefix, call,
                           ChannelEndsPath(call.port_id, call.channel_id), call.value)>>)

verify_client_full_state(call) ==
    Chain(<<HeightCall(call),
            MembershipCall(call.prefix, call, ClientStatePath(call.client_id),
                           call.value)>>)

\* Mutant of verify_packet_data: the delay is checked before the height.
verify_packet_data_delay_first(context, call, conn) ==
    Chain(<<DelayCall(context, call, conn),
            HeightCall(call),
            MembershipCall(conn.counterparty_prefix, call,
                CommitmentsPath(call.port_id, call.channel_id, call.sequence),
                call.value)>>)

verify_packet_data(context, call, conn) ==
    Chain(<<HeightCall(call),
            DelayCall(context, call, conn),
            MembershipCall(conn.counterparty_prefix, call,
                CommitmentsPath(call.port_id, call.channel_id, call.sequence),
                call.value)>>)

\* Mutant of verify_packet_acknowledgement: the proof is verified under a
\* prefix the caller supplies.
verify_packet_acknowledgement_local_prefix(context, call, conn) ==
    Chain(<<HeightCall(call),
            DelayCall(context, call, conn),
            MembershipCall(call.prefix, call,
                AcksPath(call.port_id, call.channel_id, call.sequence), call.value)>>)

verify_packet_acknowledgement(context, call, conn) ==
    Chain(<<HeightCall(call),
            DelayCall(context, call, conn),
            MembershipCall(conn.counterparty_prefix, call,
                AcksPath(call.port_id, call.channel_id, call.sequence), call.value)>>)

\* The value is the encoding of the sequence number.
verify_next_sequence_recv(context, call, conn) ==
    Chain(<<HeightCall(call),
            DelayCall(context, call, conn),
            MembershipCall(conn.counterparty_prefix, call,
                SeqRecvsPath(call.port_id, call.channel_id), call.sequence)>>)

\* Mutant of verify_packet_receipt_absence: no delay check.
verify_packet_receipt_absence_no_delay(context, call, conn) ==
    Chain(<<HeightCall(call),
            NonMembershipCall(conn.counterparty_prefix, call,
                ReceiptsPath(call.port_id, call.channel_id, call.sequence))>>)

verify_packet_receipt_absence(context, call, conn) ==
    Chain(<<HeightCall(call),
            DelayCall(context, call, conn),
            NonMembershipCall(conn.counterparty_prefix, call,
                ReceiptsPath(call.port_id, call.channel_id, call.sequence))>>)

\* No GrandpaClient operation has returned.
ClientNotCalled == [op |-> "", result |-> NotCalled]

\* The operation `op` is called with client_call, ctx and connection_end, and
\* returns what `chain` says.
ClientReturns(op, chain) ==
    /\ client_result = ClientNotCalled
    /\ client_result' = [op |-> op, result |-> chain.result]
    /\ client_log' = chain.log
    /\ UNCHANGED <<client_call, delay_vars>>
    /\ UNCHANGED not_client_vars

VerifyClientConsensusState ==
    ClientReturns("verify_client_consensus_state",
                  verify_client_consensus_state(client_call))

VerifyConnectionState ==
    ClientReturns("verify_connection_state", verify_connection_state(client_call))

VerifyChannelState ==
    ClientReturns("verify_channel_state", verify_channel_state(client_call))

VerifyClientFullState ==
    ClientReturns("verify_client_full_state", verify_client_full_state(client_call))

VerifyPacketData ==
    ClientReturns("verify_packet_data",
                  verify_packet_data(ctx, client_call, connection_end))

VerifyPacketAcknowledgement ==
    ClientReturns("verify_packet_acknowledgement",
                  verify_packet_acknowledgement(ctx, client_call, connection_end))

VerifyNextSequenceRecv ==
    ClientReturns("verify_next_sequence_recv",
                  verify_next_sequence_recv(ctx, client_call, connection_end))

VerifyPacketReceiptAbsence ==
    ClientReturns("verify_packet_receipt_absence",
                  verify_packet_receipt_absence(ctx, client_call, connection_end))

NextClient ==
    \/ VerifyClientConsensusState
    \/ VerifyConnectionState
    \/ VerifyChannelState
    \/ VerifyClientFullState
    \/ VerifyPacketData
    \/ VerifyPacketAcknowledgement
    \/ VerifyNextSequenceRecv
    \/ VerifyPacketReceiptAbsence

----------------------------------------------------------------------------
(* AncestryChain::ancestry, one turn of its loop at a time.                 *)

\* ancestry has not returned.
AncestryPending == [returned |-> FALSE, ok |-> FALSE, route |-> <<>>]

\* Ok(route)
AncestryOk(route) == [returned |-> TRUE, ok |-> TRUE, route |-> route]

\* Err(finality_grandpa::Error::NotDescendent)
NotDescendent == [returned |-> TRUE, ok |-> FALSE, route |-> <<>>]

\* let mut route = Vec::new(); let mut current_hash = block;
AncestryEntry(block) == [current_hash |-> block, route |-> <<>>]

AncestryRunning == ancestry_call # <<>> /\ ~ancestry_result.returned

\* Mutant of AncestryBreak: the base is left on the route.
AncestryBreakKeepsBase ==
    /\ AncestryRunning
    /\ ancestry_walk.current_hash = ancestry_call.base
    /\ ancestry_result' = AncestryOk(ancestry_walk.route)
    /\ UNCHANGED <<ancestry_call, ancestry_walk>>
    /\ UNCHANGED not_ancestry_vars

\* if current_hash == base { break; } .. route.pop(); Ok(route)
AncestryBreak ==
    /\ AncestryRunning
    /\ ancestry_walk.current_hash = ancestry_call.base
    /\ ancestry_result' = AncestryOk(Pop(ancestry_walk.route))
    /\ UNCHANGED <<ancestry_call, ancestry_walk>>
    /\ UNCHANGED not_ancestry_vars

\* Some(current_header) => the parent hash becomes current and is pushed
AncestryAdvance ==
    /\ AncestryRunning
    /\ ancestry_walk.current_hash # ancestry_call.base
    /\ LET chain == AncestryChainNew(ancestry_call.headers)
       IN /\ ancestry_walk.current_hash \in DOMAIN chain
          /\ ancestry_walk' =
                [current_hash |-> chain[ancestry_walk.current_hash].parent_hash,
                 route |-> Append(ancestry_walk.route,
                                  chain[ancestry_walk.current_hash].parent_hash)]
    /\ UNCHANGED <<ancestry_call, ancestry_result>>
    /\ UNCHANGED not_ancestry_vars

\* Mutant of AncestryNotDescendent: a hash without a header sends the walk
\* back to the block it started from.
AncestryStartsOver ==
    /\ AncestryRunning
    /\ ancestry_walk.current_hash # ancestry_call.base
    /\ ancestry_walk.current_hash \notin DOMAIN AncestryChainNew(ancestry_call.headers)
    /\ ancestry_walk' = AncestryEntry(ancestry_call.block)
    /\ UNCHANGED <<ancestry_call, ancestry_result>>
    /\ UNCHANGED not_ancestry_vars

\* _ => return Err(finality_grandpa::Error::NotDescendent)
AncestryNotDescendent ==
    /\ AncestryRunning
    /\ ancestry_walk.current_hash # ancestry_call.base
    /\ ancestry_walk.current_hash \notin DOMAIN AncestryChainNew(ancestry_call.headers)
    /\ ancestry_result' = NotDescendent
    /\ UNCHANGED <<ancestry_call, ancestry_walk>>
    /\ UNCHANGED not_ancestry_vars

NextAncestry ==
    \/ AncestryBreak
    \/ AncestryAdvance
    \/ AncestryNotDescendent

----------------------------------------------------------------------------
(* find_scheduled_change and find_forced_change                             *)

\* GRANDPA_ENGINE_ID and the engine id of another consensus engine
GRANDPA_ENGINE_ID == "FRNK"

OtherEngineId == "BABE"

\* Neither function has been called on the header.
DigestPending == [called |-> FALSE, option |-> None]

DigestReturned(option) == [called |-> TRUE, option |-> option]

\* l.try_to(OpaqueDigestItemId::Consensus(&GRANDPA_ENGINE_ID)): the decoded
\* log of a Consensus item of that engine, nothing for an item of another
\* kind or engine or for data that does not decode.
try_to(item, id) ==
    IF item.kind = "Consensus" /\ item.engine = id /\ item.log.tag # "Undecodable"
    THEN Some(item.log)
    ELSE None

\* filter_log of find_scheduled_change
filter_scheduled(consensus_log) ==
    IF consensus_log.tag = "ScheduledChange" THEN Some(consensus_log.change) ELSE None

\* filter_log of find_forced_change
filter_forced(consensus_log) ==
    IF consensus_log.tag = "ForcedChange"
    THEN Some(<<consensus_log.delay, consensus_log.change>>)
    ELSE None

\* |l| l.try_to(id).and_then(filter_log), for each of the two filters
ScheduledOf(item) ==
    LET decoded == try_to(item, GRANDPA_ENGINE_ID)
    IN IF decoded.some THEN filter_scheduled(decoded.value) ELSE None

ForcedOf(item) ==
    LET decoded == try_to(item, GRANDPA_ENGINE_ID)
    IN IF decoded.some THEN filter_forced(decoded.value) ELSE None

\* Mutant of find_scheduled_change: the last matching item wins.
RECURSIVE find_last_scheduled_change(_)
find_last_scheduled_change(digest) ==
    IF digest = <<>> THEN None
    ELSE IF ScheduledOf(digest[Len(digest)]).some
         THEN ScheduledOf(digest[Len(digest)])
         ELSE find_last_scheduled_change(SubSeq(digest, 1, Len(digest) - 1))

\* header.digest().convert_first(..): the first item the closure converts
RECURSIVE find_scheduled_change(_)
find_scheduled_change(digest) ==
    IF digest = <<>> THEN None
    ELSE IF ScheduledOf(Head(digest)).some
         THEN ScheduledOf(Head(digest))
         ELSE find_scheduled_change(Tail(digest))

RECURSIVE find_forced_change(_)
find_forced_change(digest) ==
    IF digest = <<>> THEN None
    ELSE IF ForcedOf(Head(digest)).some
         THEN ForcedOf(Head(digest))
         ELSE find_forced_change(Tail(digest))

FindScheduledChange ==
    /\ digest_call # <<>>
    /\ ~scheduled_change.called
    /\ scheduled_change' = DigestReturned(find_scheduled_change(digest_call))
    /\ UNCHANGED <<digest_call, forced_change>>
    /\ UNCHANGED not_digest_vars

FindForcedChange ==
    /\ digest_call # <<>>
    /\ ~forced_change.called
    /\ forced_change' = DigestReturned(find_forced_change(digest_call))
    /\ UNCHANGED <<digest_call, scheduled_change>>
    /\ UNCHANGED not_digest_vars

NextDigest ==
    \/ FindScheduledChange
    \/ FindForcedChange

----------------------------------------------------------------------------
(* hyperspace/solana: the undelivered-sequences flags of the client.        *)

\* UndeliveredType
UndeliveredKinds == {"Recvs", "Acks", "Timeouts"}

\* CommonClientState::on_undelivered_sequences: the flag of the kind is set.
CommonOnUndeliveredSequences(state, has, kind) == [state EXCEPT ![kind] = has]

\* CommonClientState::has_undelivered_sequences: the flag of the kind.
CommonHasUndeliveredSequences(state, kind) == state[kind]

\* async move { __self.common_state().on_undelivered_sequences(has, kind).await }
UndeliveredFuture(state, has, kind) ==
    [polled |-> CommonOnUndeliveredSequences(state, has, kind), dropped |-> state]

\* Client::on_undelivered_sequences: the future is built, bound to `_` and so
\* dropped where it stands; it is never awaited, and the call completes.
OnUndeliveredSequences ==
    /\ undelivered # <<>>
    /\ Len(notifications) < MaxNotifications
    /\ \E has \in BOOLEAN, kind \in UndeliveredKinds :
          /\ undelivered' = UndeliveredFuture(undelivered, has, kind).dropped
          /\ notifications' = Append(notifications, [has |-> has, kind |-> kind])
    /\ UNCHANGED queried
    /\ UNCHANGED not_solana_vars

\* Client::has_undelivered_sequences
HasUndeliveredSequences ==
    /\ undelivered # <<>>
    /\ \E kind \in UndeliveredKinds :
          queried' = [kind |-> kind,
                      answer |-> CommonHasUndeliveredSequences(undelivered, kind),
                      after |-> Len(notifications)]
    /\ UNCHANGED <<undelivered, notifications>>
    /\ UNCHANGED not_solana_vars

NextSolana ==
    \/ OnUndeliveredSequences
    \/ HasUndeliveredSequences

----------------------------------------------------------------------------
(* Inputs *)

\* No delay check is running.
NoDelayCall ==
    /\ ctx = <<>>
    /\ connection_end = <<>>
    /\ delay_passed = DelayNotChecked

\* No GrandpaClient operation is running.
NoClientCall ==
    /\ client_call = <<>>
    /\ client_result = ClientNotCalled
    /\ client_log = <<>>

\* No path is being built.
NoPathCall ==
    /\ path_call = <<>>
    /\ path_strings = <<>>

\* No ancestry walk is running.
NoAncestryCall ==
    /\ ancestry_call = <<>>
    /\ ancestry_walk = <<>>
    /\ ancestry_result = AncestryPending

\* No header is searched for a change of authorities.
NoDigestCall ==
    /\ digest_call = <<>>
    /\ scheduled_change = DigestPending
    /\ forced_change = DigestPending

\* The justification has not been submitted before.
NoResubmission == previous = <<>>

\* A release build: integer overflow is not trapped.
ReleaseProfile == overflow_checks = FALSE

\* No Solana client is running.
NoSolanaCall ==
    /\ undelivered = <<>>
    /\ notifications = <<>>
    /\ queried = <<>>

\* No proof verification is running.
NoTrieCall ==
    /\ trie_call = [prefix |-> 0, proof |-> <<>>, root |-> <<>>, path |-> 0, value |-> 0]
    /\ membership = NotCalled
    /\ non_membership = NotCalled

\* The keys the generated proofs speak of: the child-trie key of prefix 1 and
\* the storage key of path 1 under prefix 1.
TrieKeys == {PrefixedStorageKey(1), StorageKey(1, 1)}

\* What a generated proof holds at a key: nothing, an entry behind a hash
\* reference, a revealed entry with its value, a revealed entry without.
NodeKinds ==
    {[kind |-> "absent", value |-> 0], [kind |-> "omitted", value |-> 0]}
        \cup {[kind |-> k, value |-> v] : k \in {"hashed", "inline"}, v \in 1..MaxValue}

ProofOf(nodes) ==
    [malformed |-> FALSE,
     revealed |-> {[key |-> k, value |-> nodes[k].value,
                    omitted |-> nodes[k].kind = "omitted"] :
                      k \in {x \in TrieKeys : nodes[x].kind \in {"omitted", "inline"}}},
     hidden |-> {[key |-> k, value |-> nodes[k].value] :
                      k \in {x \in TrieKeys : nodes[x].kind = "hashed"}}]

MalformedProof == [malformed |-> TRUE, revealed |-> {}, hidden |-> {}]

\* A key of another path under prefix 1, and the proof of a trie that holds
\* nothing but an entry at it, behind a hash reference.
OtherKey == StorageKey(1, 2)

OtherEntryProof ==
    [malformed |-> FALSE, revealed |-> {}, hidden |-> {[key |-> OtherKey, value |-> 1]}]

\* A generated proof reveals at most one key.
TrieProofs ==
    {MalformedProof, OtherEntryProof} \cup
    {ProofOf(nodes) : nodes \in {f \in [TrieKeys -> NodeKinds] :
        Cardinality({k \in TrieKeys : f[k].kind \in {"omitted", "inline"}}) <= 1}}

UndecodableBytes ==
    [decodes |-> FALSE, child_trie_proof |-> MalformedProof,
     child_trie_root_proof |-> MalformedProof]

ProofBytes ==
    {UndecodableBytes} \cup
    {[decodes |-> TRUE, child_trie_proof |-> p, child_trie_root_proof |-> q] :
        p \in TrieProofs, q \in TrieProofs}

\* Commitment roots: the root of every trie over TrieKeys, and a root one byte
\* short.
CommitmentRoots ==
    {[len |-> RootLength, hash |-> TrieRoot(ProofOf(nodes).hidden)] :
        nodes \in [TrieKeys -> {n \in NodeKinds : n.kind \in {"absent", "hashed"}}]}
        \cup {[len |-> RootLength, hash |-> TrieRoot(OtherEntryProof.hidden)]}
        \cup {[len |-> RootLength - 1, hash |-> 0]}

\* No justification is being verified.
NoJustificationCall ==
    /\ encoded = <<>>
    /\ finalized_target = <<0, 0>>
    /\ set_id = 0
    /\ pc = "done"
    /\ justification = NoJustification
    /\ oracle = "none"
    /\ base_hash = 0
    /\ idx = 0
    /\ visited_hashes = {}
    /\ result = Pending
    /\ log = <<>>

InitTrie ==
    /\ trie_call \in [prefix : {1}, proof : ProofBytes, root : CommitmentRoots,
                      path : {1}, value : 1..MaxValue]
    /\ membership = NotCalled
    /\ non_membership = NotCalled
    /\ NoJustificationCall
    /\ NoDelayCall
    /\ NoClientCall
    /\ NoPathCall
    /\ NoAncestryCall
    /\ NoDigestCall
    /\ NoResubmission
    /\ ReleaseProfile
    /\ NoSolanaCall

SpecTrie == InitTrie /\ [][NextTrie]_vars

\* What the update index may hold for the client and height of a call.
UpdateLookups(max) ==
    {[found |-> FALSE, value |-> 0]} \cup {[found |-> TRUE, value |-> v] : v \in 0..max}

InitDelay ==
    /\ ctx \in [host_timestamp : {0}, host_height : {0},
                client_update_time : UpdateLookups(MaxTime),
                client_update_height : UpdateLookups(MaxHeight),
                block_delay : 0..MaxHeight]
    /\ connection_end \in [delay_period : 0..MaxTime, counterparty_prefix : {1}]
    /\ delay_passed = DelayNotChecked
    /\ NoJustificationCall
    /\ NoTrieCall
    /\ NoClientCall
    /\ NoPathCall
    /\ NoAncestryCall
    /\ NoDigestCall
    /\ NoResubmission
    /\ ReleaseProfile
    /\ NoSolanaCall

SpecDelay == InitDelay /\ [][NextDelay]_vars

\* The host's clocks keep moving and the caller keeps retrying.
SpecDelayFair ==
    /\ SpecDelay
    /\ WF_vars(AdvanceTime)
    /\ WF_vars(AdvanceHeight)
    /\ WF_vars(VerifyDelayPassed)

InitPath ==
    /\ path_call \in [a : Paths, b : Paths, prefix : 1..2]
    /\ path_strings = <<>>
    /\ NoJustificationCall
    /\ NoTrieCall
    /\ NoDelayCall
    /\ NoClientCall
    /\ NoAncestryCall
    /\ NoDigestCall
    /\ NoResubmission
    /\ ReleaseProfile
    /\ NoSolanaCall

SpecPath == InitPath /\ [][NextPath]_vars

\* The paths the operations build from the identifiers of a generated call.
ClientPaths ==
    {ClientStatePath("10-grandpa-0"), ClientConsensusStatePath("10-grandpa-0", 0, 1),
     ConnectionsPath("connection-0"), ChannelEndsPath("transfer", "channel-0"),
     SeqRecvsPath("transfer", "channel-0"), CommitmentsPath("transfer", "channel-0", 1),
     AcksPath("transfer", "channel-0", 1), ReceiptsPath("transfer", "channel-0", 1)}

\* Proof bytes verify_membership accepts for a value at a path under a prefix:
\* each of the two proofs leaves the value at its key to the verifier and
\* holds the other key behind a hash reference.
MembershipProof(prefix, path, value) ==
    [decodes |-> TRUE,
     child_trie_root_proof |->
        [malformed |-> FALSE,
         revealed |-> {[key |-> PrefixedStorageKey(prefix), value |-> 0, omitted |-> TRUE]},
         hidden |-> {[key |-> StorageKey(prefix, PathBytes(path)), value |-> value]}],
     child_trie_proof |->
        [malformed |-> FALSE,
         revealed |-> {[key |-> StorageKey(prefix, PathBytes(path)), value |-> 0,
                        omitted |-> TRUE]},
         hidden |-> {[key |-> PrefixedStorageKey(prefix), value |-> value]}]]

\* Proof bytes verify_non_membership accepts under the root of the empty trie.
AbsenceProof ==
    [decodes |-> TRUE,
     child_trie_root_proof |-> [malformed |-> FALSE, revealed |-> {}, hidden |-> {}],
     child_trie_proof |-> [malformed |-> FALSE, revealed |-> {}, hidden |-> {}]]

ClientProofs ==
    {UndecodableBytes, AbsenceProof}
        \cup {MembershipProof(p, path, v) : p \in 1..2, path \in ClientPaths, v \in 1..MaxValue}

InitClient ==
    /\ client_call \in
         [client_state : [latest_height : {1}], height : 1..2, prefix : 1..2,
          proof : ClientProofs,
          root : {[len |-> RootLength, hash |-> 0], [len |-> RootLength - 1, hash |-> 0]},
          client_id : {"10-grandpa-0"},
          consensus_height : [revision_number : {0}, revision_height : {1}],
          connection_id : {"connection-0"}, port_id : {"transfer"},
          channel_id : {"channel-0"}, sequence : {1}, value : 1..MaxValue]
    /\ client_result = ClientNotCalled
    /\ client_log = <<>>
    /\ ctx \in [host_timestamp : {1}, host_height : {1},
                client_update_time : {[found |-> TRUE, value |-> 1]},
                client_update_height : {[found |-> TRUE, value |-> 1]},
                block_delay : 0..1]
    /\ connection_end \in [delay_period : 0..1, counterparty_prefix : 1..2]
    /\ delay_passed = DelayNotChecked
    /\ NoJustificationCall
    /\ NoTrieCall
    /\ NoPathCall
    /\ NoAncestryCall
    /\ NoDigestCall
    /\ NoResubmission
    /\ ReleaseProfile
    /\ NoSolanaCall

SpecClient == InitClient /\ [][NextClient]_vars


\* Headers a prover may ship: hashes 1 (child of 0), 2 (child of 1), 3 (child of 0).
HeaderPool ==
    {[parent_hash |-> 0, extra |-> 0],
     [parent_hash |-> 1, extra |-> 0],
     [parent_hash |-> 0, extra |-> 1]}

\* The votes a generated commit may hold: block 0 at number 1, its children 1
\* and 3 at number 1 or 2, block 2 (the child of 1) at number 2.
Precommits ==
    {[target_hash |-> 0, target_number |-> 1],
     [target_hash |-> 1, target_number |-> 1],
     [target_hash |-> 1, target_number |-> 2],
     [target_hash |-> 3, target_number |-> 1],
     [target_hash |-> 3, target_number |-> 2],
     [target_hash |-> 2, target_number |-> 2]}

\* The i-th precommit of a generated commit is cast by authority i, and signed
\* for the authority set the verifier is called with, except precommit
\* `replayed` (if any), which is signed for the set before it.
SignedBy(votes, round, sid, replayed) ==
    [i \in 1..Len(votes) |->
        [precommit |-> votes[i],
         signature |-> Sign(i, votes[i], round, IF i = replayed THEN sid - 1 ELSE sid),
         id |-> i]]

Commits(round, sid) ==
    {[target_hash |-> t[1], target_number |-> t[2],
      precommits |-> SignedBy(v[1], round, sid, v[2])] :
        t \in {<<0, 1>>, <<0, 2>>, <<1, 1>>},
        v \in {w \in SeqsUpTo(Precommits, MaxPrecommits) \X (0..MaxPrecommits) :
                  w[2] <= Len(w[1])}}

Justifications ==
    {[round |-> 1, commit |-> c, votes_ancestries |-> a] :
        c \in Commits(1, 1), a \in SeqsUpTo(HeaderPool, MaxAncestry)}

InitCall ==
    /\ pc = "decode"
    /\ justification = NoJustification
    /\ oracle = "none"
    /\ base_hash = 0
    /\ idx = 0
    /\ visited_hashes = {}
    /\ result = Pending
    /\ log = <<>>
    /\ NoTrieCall
    /\ NoDelayCall
    /\ NoClientCall
    /\ NoPathCall
    /\ NoAncestryCall
    /\ NoDigestCall
    /\ NoResubmission
    /\ ReleaseProfile
    /\ NoSolanaCall

Init ==
    /\ encoded \in {Encode(j) : j \in Justifications}
    /\ finalized_target = <<0, 1>>
    /\ set_id = 1
    /\ InitCall

Spec == Init /\ [][Next]_vars

\* Raw byte strings, decoded or not: every string of cells up to a length.
InitCodec ==
    /\ encoded \in SeqsUpTo(0..MaxCell, MaxEncodedLen)
    /\ finalized_target = <<0, 0>>
    /\ set_id = 0
    /\ InitCall

SpecCodec == InitCodec /\ [][Next]_vars

\* The scenario of 4 authorities of weight 1: authorities 1..ScenarioVotes
\* each cast a precommit, all for one block.
ScenarioJustifications ==
    {[round |-> 1,
      commit |-> [target_hash |-> t[1], target_number |-> t[2],
                  precommits |-> SignedBy([i \in 1..ScenarioVotes |-> v], 1, 1, r)],
      votes_ancestries |-> a] :
        t \in {<<0, 1>>, <<0, 2>>, <<1, 1>>},
        v \in Precommits,
        r \in 0..ScenarioVotes,
        a \in SeqsUpTo(HeaderPool, MaxAncestry)}

InitScenario ==
    /\ encoded \in {Encode(j) : j \in ScenarioJustifications}
    /\ finalized_target = <<0, 1>>
    /\ set_id = 1
    /\ InitCall

SpecScenario == InitScenario /\ [][Next]_vars

\* The three fallible components side by side, one call each: a justification
\* (well formed, or one of the scenario cut short by one byte), a pair of proof
\* verifications, or a delay check.
InitErrors ==
    \/ Init
    \/ /\ encoded \in {SubSeq(Encode(j), 1, Len(Encode(j)) - 1) :
                          j \in ScenarioJustifications}
       /\ finalized_target = <<0, 1>>
       /\ set_id = 1
       /\ InitCall
    \/ InitTrie
    \/ InitDelay

NextErrors ==
    \/ Next
    \/ trie_call.proof # <<>> /\ NextTrie
    \/ ctx # <<>> /\ NextDelay

SpecErrors == InitErrors /\ [][NextErrors]_vars

\* Invocations side by side: one justification verification, one
\* verify_membership and one verify_non_membership over the same arguments,
\* and verify_delay_passed, their steps interleaved in any order.
InterleavedJustifications ==
    {j \in Justifications :
        /\ <<j.commit.target_hash, j.commit.target_number>> = <<0, 1>>
        /\ Len(j.commit.precommits) = 2
        /\ j.commit.precommits[1].precommit = [target_hash |-> 0, target_number |-> 1]
        /\ Len(j.votes_ancestries) <= 1}

InitInterleaved ==
    /\ encoded \in {Encode(j) : j \in InterleavedJustifications}
    /\ finalized_target = <<0, 1>>
    /\ set_id = 1
    /\ pc = "decode"
    /\ justification = NoJustification
    /\ oracle = "none"
    /\ base_hash = 0
    /\ idx = 0
    /\ visited_hashes = {}
    /\ result = Pending
    /\ log = <<>>
    /\ trie_call \in
         [prefix : {1},
          proof : {UndecodableBytes, AbsenceProof}
                     \cup {MembershipProof(1, ClientStatePath("10-grandpa-0"), v) : v \in 1..2},
          root : {[len |-> RootLength, hash |-> 0], [len |-> RootLength - 1, hash |-> 0]},
          path : {PathBytes(ClientStatePath("10-grandpa-0"))},
          value : {1}]
    /\ membership = NotCalled
    /\ non_membership = NotCalled
    /\ ctx \in [host_timestamp : {1}, host_height : {1},
                client_update_time : {[found |-> TRUE, value |-> 1]},
                client_update_height : {[found |-> TRUE, value |-> 1]},
                block_delay : 0..1]
    /\ connection_end \in [delay_period : 0..1, counterparty_prefix : {1}]
    /\ delay_passed = DelayNotChecked
    /\ NoClientCall
    /\ NoPathCall
    /\ NoAncestryCall
    /\ NoDigestCall
    /\ NoResubmission
    /\ ReleaseProfile
    /\ NoSolanaCall

NextInterleaved ==
    \/ Next
    \/ NextTrie
    \/ VerifyDelayPassed

SpecInterleaved == InitInterleaved /\ [][NextInterleaved]_vars

\* longest list of headers handed to an ancestry walk
MaxWalkHeaders == 3

\* The headers of HeaderPool and the child of block 2: blocks 1, 2 and 4 are
\* a chain on block 0, block 3 is another child of block 0.
WalkHeaderPool == HeaderPool \cup {[parent_hash |-> 2, extra |-> 0]}

WalkHashes == {0} \cup {HeaderHash(h) : h \in WalkHeaderPool}

InitAncestry ==
    /\ ancestry_call \in [headers : SeqsUpTo(WalkHeaderPool, MaxWalkHeaders),
                          base : WalkHashes, block : WalkHashes]
    /\ ancestry_walk = AncestryEntry(ancestry_call.block)
    /\ ancestry_result = AncestryPending
    /\ NoJustificationCall
    /\ NoTrieCall
    /\ NoDelayCall
    /\ NoClientCall
    /\ NoPathCall
    /\ NoDigestCall
    /\ NoResubmission
    /\ ReleaseProfile
    /\ NoSolanaCall

SpecAncestry == InitAncestry /\ [][NextAncestry]_vars

\* longest digest of a header
MaxDigest == 2

\* largest delay of a change of authorities
MaxChange == 2

DigestLogs ==
    [tag : {"ScheduledChange"}, change : 1..MaxChange]
        \cup [tag : {"ForcedChange"}, delay : {1}, change : 1..MaxChange]
        \cup [tag : {"OnDisabled", "Undecodable"}]

DigestItems ==
    [kind : {"Consensus", "PreRuntime"},
     engine : {GRANDPA_ENGINE_ID, OtherEngineId},
     log : DigestLogs]

InitDigest ==
    /\ digest_call \in SeqsUpTo(DigestItems, MaxDigest) \ {<<>>}
    /\ scheduled_change = DigestPending
    /\ forced_change = DigestPending
    /\ NoJustificationCall
    /\ NoTrieCall
    /\ NoDelayCall
    /\ NoClientCall
    /\ NoPathCall
    /\ NoAncestryCall
    /\ NoResubmission
    /\ ReleaseProfile
    /\ NoSolanaCall

SpecDigest == InitDigest /\ [][NextDigest]_vars

\* Justifications of two precommits over every list of headers: the headers
\* lead from the targets to the base, or stop short of it, or pass it by.
WalkedJustifications ==
    {[round |-> 1,
      commit |-> [target_hash |-> 0, target_number |-> 1,
                  precommits |-> SignedBy(<<a, b>>, 1, 1, 0)],
      votes_ancestries |-> h] :
        a \in Precommits, b \in Precommits, h \in SeqsUpTo(HeaderPool, MaxAncestry)}

\* One call runs to its end: a walk of AncestryChain::ancestry, or a
\* verification of a decoded justification.  The call is not suspended: a
\* step that can be taken is taken.
InitTermination ==
    \/ /\ encoded \in {Encode(j) : j \in WalkedJustifications}
       /\ finalized_target = <<0, 1>>
       /\ set_id = 1
       /\ InitCall
    \/ InitAncestry

NextTermination ==
    \/ Next
    \/ NextAncestry

SpecTermination ==
    /\ InitTermination
    /\ [][NextTermination]_vars
    /\ WF_vars(Next)
    /\ WF_vars(NextAncestry)

\* The lists that hold the same headers as a list: the headers in another
\* order, or with one of them once more.
SameHeaders(headers) ==
    {a \in SeqsUpTo(Range(headers), Len(headers) + 1) : Range(a) = Range(headers)}

\* The caller hands in the justification of a finished call once more, its
\* headers listed differently, and the verification starts over.
Resubmit ==
    /\ pc = "done"
    /\ previous = <<>>
    /\ Decode(encoded).ok
    /\ previous' = [headers |-> Decode(encoded).value.votes_ancestries,
                    oracle |-> oracle,
                    result |-> result]
    /\ \E a \in SameHeaders(Decode(encoded).value.votes_ancestries) :
          encoded' = Encode([Decode(encoded).value EXCEPT !.votes_ancestries = a])
    /\ pc' = "decode"
    /\ justification' = NoJustification
    /\ oracle' = "none"
    /\ base_hash' = 0
    /\ idx' = 0
    /\ visited_hashes' = {}
    /\ result' = Pending
    /\ log' = <<>>
    /\ UNCHANGED <<finalized_target, set_id>>
    /\ UNCHANGED not_resubmit_vars

\* Justifications of two precommits, the first for the commit's target, over
\* every list of headers, repeated headers included.
ResubmittedJustifications ==
    {[round |-> 1,
      commit |-> [target_hash |-> 0, target_number |-> 1,
                  precommits |-> SignedBy(<<[target_hash |-> 0, target_number |-> 1], b>>,
                                          1, 1, 0)],
      votes_ancestries |-> h] :
        b \in Precommits, h \in SeqsUpTo(HeaderPool, MaxAncestry)}

InitResubmit ==
    /\ encoded \in {Encode(j) : j \in ResubmittedJustifications}
    /\ finalized_target = <<0, 1>>
    /\ set_id = 1
    /\ InitCall

NextResubmit ==
    \/ Next
    \/ Resubmit

SpecResubmit == InitResubmit /\ [][NextResubmit]_vars

\* Delay checks whose sums reach the end of the range of a timestamp or of a
\* height, in a build that traps on integer overflow and in one that does not.
InitOverflow ==
    /\ ctx \in [host_timestamp : {0}, host_height : {0},
                client_update_time : {[found |-> TRUE, value |-> v] : v \in {0, MaxTime}},
                client_update_height :
                    {[found |-> TRUE, value |-> v] :
                        v \in {0, HeightModulus - 2, HeightModulus - 1}},
                block_delay : 0..MaxHeight]
    /\ connection_end \in [delay_period : 0..MaxTime, counterparty_prefix : {1}]
    /\ delay_passed = DelayNotChecked
    /\ overflow_checks \in BOOLEAN
    /\ NoJustificationCall
    /\ NoTrieCall
    /\ NoClientCall
    /\ NoPathCall
    /\ NoAncestryCall
    /\ NoDigestCall
    /\ NoResubmission
    /\ NoSolanaCall

SpecOverflow == InitOverflow /\ [][NextDelay]_vars

\* A Solana client with any flags set, before any notification.
InitSolana ==
    /\ undelivered \in [UndeliveredKinds -> BOOLEAN]
    /\ notifications = <<>>
    /\ queried = <<>>
    /\ NoJustificationCall
    /\ NoTrieCall
    /\ NoDelayCall
    /\ NoClientCall
    /\ NoPathCall
    /\ NoAncestryCall
    /\ NoDigestCall
    /\ NoResubmission
    /\ ReleaseProfile

SpecSolana == InitSolana /\ [][NextSolana]_vars

----------------------------------------------------------------------------
(* Notions the properties are stated in *)

HasHeader(headers, h) == \E i \in 1..Len(headers) : HeaderHash(headers[i]) = h

ParentOf(headers, h) ==
    headers[CHOOSE i \in 1..Len(headers) : HeaderHash(headers[i]) = h].parent_hash

\* The hashes from `block` back to `base` along parent links, `block` included
\* and `base` excluded; the chain ends where a header is missing.
RECURSIVE Between(_, _, _)
Between(headers, base, block) ==
    IF block = base THEN {}
    ELSE IF ~HasHeader(headers, block) THEN {block}
    ELSE {block} \cup Between(headers, base, ParentOf(headers, block))

\* Whether the headers link `block` to `base`.
RECURSIVE Connected(_, _, _)
Connected(headers, base, block) ==
    \/ block = base
    \/ /\ HasHeader(headers, block)
       /\ Connected(headers, base, ParentOf(headers, block))

\* The visited set of a justification: over every precommit whose target is
\* not the base, its target and the hashes on its route back to the base.
VisitedSet(j, base) ==
    UNION {Between(j.votes_ancestries, base, j.commit.precommits[i].precommit.target_hash) :
              i \in {k \in 1..Len(j.commit.precommits) :
                        j.commit.precommits[k].precommit.target_hash # base}}

HeaderHashSet(j) == {HeaderHash(h) : h \in Range(j.votes_ancestries)}

Performed(check) == \E i \in 1..Len(log) : log[i].check = check

Decoded == Decode(encoded)

NumPrecommits == Len(justification.commit.precommits)

\* Precommit i of the decoded justification carries a signature that is not
\* the one of its declared authority over (precommit, round, set_id).
BadSignatureAt(i) ==
    LET signed == justification.commit.precommits[i]
    IN signed.signature # Sign(signed.id, signed.precommit, justification.round, set_id)

\* The parent links of votes_ancestries do not lead from precommit i's target
\* to the base.
BrokenWalkAt(i) ==
    ~Connected(justification.votes_ancestries, base_hash,
               justification.commit.precommits[i].precommit.target_hash)

\* The authority ids an error value carries: sp_blockchain::Error holds a
\* variant and, for BadJustification, a message.
ErrorVoters(r) == IF "voter" \in DOMAIN r THEN {r.voter} ELSE {}

\* The exact length of an encoding: the three leading fields, the precommits
\* and the headers, each list after its length.
WellFormed(bytes) ==
    /\ Len(bytes) >= 5
    /\ Len(bytes) >= 5 + 4 * bytes[4]
    /\ Len(bytes) = 5 + 4 * bytes[4] + 2 * bytes[5 + 4 * bytes[4]]

\* A valid encoding followed by one or more bytes.
HasTrailingBytes(bytes) ==
    \E k \in 1..(Len(bytes) - 1) : WellFormed(SubSeq(bytes, 1, k))

\* A valid encoding cut short: no prefix of it is a valid encoding.
IsTruncated(bytes) ==
    \A k \in 0..Len(bytes) : ~WellFormed(SubSeq(bytes, 1, k))

----------------------------------------------------------------------------
(* Properties *)

\* C1: for every justification that verify_with_voter_set accepts, the set of
\* hashes of the headers of votes_ancestries is exactly the visited set: the
\* union, over the precommits whose target is not the base, of the target and
\* the hashes on its route back to the base.
C1_AcceptedHeadersAreExactlyVisited ==
    result.tag = "Ok" =>
        HeaderHashSet(result.value) = VisitedSet(result.value, base_hash)

\* An accepted justification whose two precommits reach the base over
\* different routes or one longer route, with at least two headers visited.
C1_Witness ==
    /\ result.tag = "Ok"
    /\ Cardinality(VisitedSet(result.value, base_hash)) >= 2
    /\ \E i \in 1..Len(justification.commit.precommits) :
          justification.commit.precommits[i].precommit.target_hash # base_hash

\* C2: decode_and_verify_finalizes fails with the commit-target error whenever
\* the decoded commit's (target_hash, target_number) differs from the expected
\* target, and neither validate_commit nor a signature check (nor anything
\* after them) is performed in that call.
C2_TargetMismatchBeforeOracle ==
    (Decoded.ok /\ <<Decoded.value.commit.target_hash,
                     Decoded.value.commit.target_number>> # finalized_target)
    => /\ oracle = "none"
       /\ ~Performed("validate_commit")
       /\ ~Performed("signature")
       /\ ~Performed("ancestry")
       /\ ~Performed("ancestries")
       /\ pc = "done" => result = BadJustification(InvalidCommitTarget)

\* A finished call that was refused for its target: the hash is the expected
\* one and only the number differs.
C2_Witness ==
    /\ pc = "done"
    /\ Decoded.ok
    /\ Decoded.value.commit.target_hash = finalized_target[1]
    /\ Decoded.value.commit.target_number # finalized_target[2]
    /\ result = BadJustification(InvalidCommitTarget)
    /\ Len(Decoded.value.commit.precommits) > 0

\* C3 as stated: with exactly one precommit whose signature does not verify,
\* an oracle-valid justification fails with the signature error and the error
\* identifies the AuthorityId of the offending voter.
C3_Original ==
    (pc = "done" /\ oracle = "valid"
        /\ Cardinality({i \in 1..NumPrecommits : BadSignatureAt(i)}) = 1)
    => /\ result = BadJustification(InvalidSignature)
       /\ \A i \in 1..NumPrecommits :
             BadSignatureAt(i) =>
                 justification.commit.precommits[i].id \in ErrorVoters(result)

\* C3, amended: with exactly one precommit whose signature does not verify,
\* an oracle-valid justification is refused; the error is
\* BadJustification("invalid signature for precommit ..") unless the ancestry
\* walk of an earlier precommit fails first, in which case it is the ancestry
\* proof error; the error carries no AuthorityId.
C3_BadSignatureRefused ==
    (pc = "done" /\ oracle = "valid"
        /\ Cardinality({i \in 1..NumPrecommits : BadSignatureAt(i)}) = 1)
    => \A k \in 1..NumPrecommits :
          BadSignatureAt(k) =>
             /\ result.tag = "Err"
             /\ ErrorVoters(result) = {}
             /\ IF \E i \in 1..(k - 1) : BrokenWalkAt(i)
                THEN result = BadJustification(InvalidAncestryProof)
                ELSE result = BadJustification(InvalidSignature)

\* The second of two precommits is signed for another authority set, the
\* first is in order, and the call ended with the signature error.
C3_Witness ==
    /\ pc = "done"
    /\ oracle = "valid"
    /\ NumPrecommits = 2
    /\ ~BadSignatureAt(1)
    /\ BadSignatureAt(2)
    /\ result = BadJustification(InvalidSignature)

\* C4: in the scenario (ScenarioVotes validly signed precommits of distinct
\* authorities, all for the base block, accepted by the oracle) the
\* justification with votes_ancestries = [] verifies, and the same
\* justification with any header in votes_ancestries is refused with the
\* unused-headers error.
C4_ScenarioAllVotesOnBase ==
    (pc = "done" /\ oracle = "valid"
        /\ NumPrecommits = ScenarioVotes
        /\ \A i \in 1..NumPrecommits :
              /\ ~BadSignatureAt(i)
              /\ justification.commit.precommits[i].precommit.target_hash = base_hash)
    => /\ justification.votes_ancestries = <<>> => result = Ok(Decoded.value)
       /\ justification.votes_ancestries # <<>> =>
              result = BadJustification(UnusedHeaders)

\* The scenario accepted: ScenarioVotes valid precommits for one block, by
\* the authorities 1..ScenarioVotes, and no header shipped.
C4_Witness ==
    /\ result.tag = "Ok"
    /\ Len(result.value.commit.precommits) = ScenarioVotes
    /\ {result.value.commit.precommits[i].id : i \in 1..ScenarioVotes} = 1..ScenarioVotes
    /\ result.value.votes_ancestries = <<>>

C6_OracleFirst ==
    /\ oracle \in {"invalid", "error"}
       => /\ pc = "done"
          /\ result = BadJustification(InvalidCommit)
          /\ ~Performed("signature")
          /\ ~Performed("ancestry")
          /\ ~Performed("ancestries")
    /\ \A i \in 1..Len(log) :
          log[i].check \in {"signature", "ancestry", "ancestries"}
          => \E k \in 1..(i - 1) : log[k].check = "validate_commit"

\* The oracle found a commit with precommits not valid (Ok, but not
\* is_valid()) and the call ended there.
C6_Witness ==
    /\ oracle = "invalid"
    /\ NumPrecommits > 0
    /\ result = BadJustification(InvalidCommit)
    /\ log[Len(log)].check = "validate_commit"

\* Every check of the call passes.
AllChecksPass ==
    /\ Decoded.ok
    /\ <<Decoded.value.commit.target_hash, Decoded.value.commit.target_number>>
           = finalized_target
    /\ oracle = "valid"
    /\ \A i \in 1..NumPrecommits : ~BadSignatureAt(i) /\ ~BrokenWalkAt(i)
    /\ HeaderHashSet(Decoded.value) = VisitedSet(Decoded.value, base_hash)

\* C7: decode_and_verify_finalizes returns a justification exactly when the
\* decoding, the target check, the oracle, every signature check, every
\* ancestry walk and the header-set equality pass; it is the decoded
\* justification and its target() is (expected number, expected hash).  Any
\* other finished call returns one error and no justification, and nothing is
\* returned before the call has finished.
C7_OkOnlyWhenAllChecksPass ==
    /\ pc # "done" => result = Pending
    /\ pc = "done" =>
          /\ result.tag = "Ok" <=> AllChecksPass
          /\ result.tag = "Ok" =>
                /\ result.value = Decoded.value
                /\ Target(result.value) = <<finalized_target[2], finalized_target[1]>>
          /\ result.tag # "Ok" =>
                /\ result.tag = "Err"
                /\ result.value = NoJustification

\* A returned justification with two precommits and a header.
C7_Witness ==
    /\ pc = "done"
    /\ result.tag = "Ok"
    /\ Len(result.value.commit.precommits) = 2
    /\ result.value.votes_ancestries # <<>>
    /\ Target(result.value) = <<1, 0>>

\* C8 as stated: a truncated encoding, and a valid encoding followed by one or
\* more trailing bytes, are refused with the decode error and never reach the
\* target check or the verification.
C8_Original ==
    (IsTruncated(encoded) \/ HasTrailingBytes(encoded))
    => /\ ~Performed("target")
       /\ ~Performed("validate_commit")
       /\ pc = "done" => result = JustificationDecode

\* C9 as stated: re-encoding a successfully decoded justification gives the
\* original byte string.
C9_Original ==
    (pc # "decode" /\ Decoded.ok) => Encode(justification) = encoded


\* The first check of verify_membership: the child-root proof against the main
\* root, for the child-trie key of the prefix and the leaf value.
ChildRootCheck ==
    VerifyTrieProof(trie_call.root.hash, trie_call.proof.child_trie_root_proof,
                    PrefixedStorageKey(trie_call.prefix), Some(trie_call.value))

\* The leaf proof for (prefix || path, Some(value)) against a root.
LeafCheckUnder(r) ==
    VerifyTrieProof(r, trie_call.proof.child_trie_proof,
                    StorageKey(trie_call.prefix, trie_call.path), Some(trie_call.value))

\* The two checks are made at all: the root is a hash and the proof bytes
\* decode to the two proofs.
ChecksMade == trie_call.root.len = RootLength /\ trie_call.proof.decodes

\* C10: verify_membership succeeds if and only if the child-root proof checked
\* against the main root yields a root mismatch that carries a recovered root
\* and the leaf proof verifies (prefix || path, Some(value)) under that
\* recovered root; a child-root proof that verifies directly, one that fails
\* with another error, and a failing leaf proof each make it fail.
C10_MembershipIffLeafUnderRecoveredRoot ==
    membership # NotCalled =>
        /\ membership.tag \in {"Ok", "Err"}
        /\ membership.tag = "Ok" <=>
              /\ ChecksMade
              /\ ChildRootCheck.tag = "RootMismatch"
              /\ LeafCheckUnder(ChildRootCheck.root).tag = "Ok"
        /\ (ChecksMade /\ ChildRootCheck.tag = "Ok") => membership.tag = "Err"
        /\ (ChecksMade /\ ChildRootCheck.tag \notin {"Ok", "RootMismatch"}) =>
              membership.tag = "Err"
        /\ (ChecksMade /\ ChildRootCheck.tag = "RootMismatch"
              /\ LeafCheckUnder(ChildRootCheck.root).tag # "Ok") => membership.tag = "Err"

\* C10 witness: a membership verification that succeeded, on a root mismatch of
\* the first check and a leaf proof for the recovered root.
C10_Witness ==
    /\ membership = OkUnit
    /\ ChildRootCheck.tag = "RootMismatch"
    /\ ChildRootCheck.root # trie_call.root.hash
    /\ LeafCheckUnder(ChildRootCheck.root) = VerifyOk


\* A proof shows a key absent from the trie of a root: its nodes are well
\* formed, none of them holds the key, and they hash to the root.
ProvesAbsent(proof, key, root) ==
    /\ ~proof.malformed
    /\ \A e \in proof.revealed \cup proof.hidden : e.key # key
    /\ TrieRoot({[key |-> e.key, value |-> e.value] : e \in proof.revealed}
                    \cup proof.hidden) = root

\* C11: verify_non_membership succeeds if and only if, against the main root
\* itself, the child-root proof proves the child-trie key of the prefix absent
\* and the leaf proof proves prefix || path absent; either check failing makes
\* it fail whatever the other check says.
C11_NonMembershipIffBothAbsentUnderMainRoot ==
    non_membership # NotCalled =>
        /\ non_membership.tag \in {"Ok", "Err"}
        /\ non_membership.tag = "Ok" <=>
              /\ ChecksMade
              /\ ProvesAbsent(trie_call.proof.child_trie_root_proof,
                              PrefixedStorageKey(trie_call.prefix), trie_call.root.hash)
              /\ ProvesAbsent(trie_call.proof.child_trie_proof,
                              StorageKey(trie_call.prefix, trie_call.path),
                              trie_call.root.hash)

\* C11 witness: non-membership accepted under the root of a trie that is not
\* empty.
C11_Witness ==
    /\ non_membership = OkUnit
    /\ trie_call.root.hash # 0

\* C11 witness of the failing side: the leaf proof proves absence, the
\* child-root proof does not, and the operation has failed.
C11_FailureSeen ==
    /\ non_membership.tag = "Err"
    /\ ChecksMade
    /\ ProvesAbsent(trie_call.proof.child_trie_proof,
                    StorageKey(trie_call.prefix, trie_call.path), trie_call.root.hash)


\* C12: for the same prefix, proof, root and path, verify_membership (of any
\* value) and verify_non_membership never both succeed.
C12_MembershipExcludesNonMembership ==
    ~(membership.tag = "Ok" /\ non_membership.tag = "Ok")

\* C12 witness: both operations were called on one proof; it was accepted as
\* membership and rejected as non-membership.
C12_Witness ==
    /\ membership = OkUnit
    /\ non_membership.tag = "Err"

\* C12 witness of the other direction: accepted as non-membership, rejected
\* as membership.
C12_NonMembershipSeen ==
    /\ non_membership = OkUnit
    /\ membership.tag = "Err"


\* C13: with a commitment root that is not exactly 32 bytes long both
\* verify_membership and verify_non_membership fail with the root-length
\* error, also when the proof bytes do not decode.
C13_RootLengthCheckedFirst ==
    trie_call.root.len # 32 =>
        /\ membership \in {NotCalled, Anyhow("invalid commitment root length")}
        /\ non_membership \in {NotCalled, Anyhow("invalid commitment root length")}

\* C13 witness: both operations have returned on a root of the wrong length
\* and proof bytes that do not decode.
C13_Witness ==
    /\ trie_call.root.len # 32
    /\ ~trie_call.proof.decodes
    /\ membership = Anyhow("invalid commitment root length")
    /\ non_membership = Anyhow("invalid commitment root length")


\* The update index knows when the client was updated to the height.
UpdateKnown == ctx.client_update_time.found /\ ctx.client_update_height.found

\* current_time >= processed_time + delay_period_time, at a host time
TimeConditionMet(time) ==
    time >= ctx.client_update_time.value + connection_end.delay_period

\* current_height >= processed_height + delay_period_blocks, at a host height
BlockConditionMet(height) ==
    height >= ctx.client_update_height.value + ctx.block_delay

\* C16: verify_delay_passed succeeds if and only if current_time >=
\* processed_time + delay_period_time and current_height >= processed_height +
\* delay_period_blocks, equality accepted on either axis; it fails when only
\* the time condition or only the block condition is unmet.
C16_DelayPassedIffBothConditions ==
    (delay_passed.result # NotCalled /\ UpdateKnown) =>
        /\ delay_passed.result.tag \in {"Ok", "Err"}
        /\ delay_passed.result.tag = "Ok" <=>
              /\ TimeConditionMet(delay_passed.time)
              /\ BlockConditionMet(delay_passed.height)

\* C16 witness: accepted with equality on both axes, after a positive delay.
C16_Witness ==
    /\ delay_passed.result = OkUnit
    /\ connection_end.delay_period > 0
    /\ ctx.block_delay > 0
    /\ delay_passed.time = ctx.client_update_time.value + connection_end.delay_period
    /\ delay_passed.height = ctx.client_update_height.value + ctx.block_delay

\* C16 witness of a refusal on the time axis alone.
C16_TimeAloneUnmet ==
    /\ delay_passed.result.tag = "Err"
    /\ UpdateKnown
    /\ ~TimeConditionMet(delay_passed.time)
    /\ BlockConditionMet(delay_passed.height)

\* C16 witness of a refusal on the block axis alone.
C16_BlocksAloneUnmet ==
    /\ delay_passed.result.tag = "Err"
    /\ UpdateKnown
    /\ TimeConditionMet(delay_passed.time)
    /\ ~BlockConditionMet(delay_passed.height)


\* The host's clocks can reach the earliest time and the earliest height.
DelayAttainable ==
    /\ UpdateKnown
    /\ ctx.client_update_time.value + connection_end.delay_period <= MaxTime
    /\ ctx.client_update_height.value + ctx.block_delay <= MaxHeight

\* C17: for a fixed processed time, processed height and delay, with the
\* host's clocks moving on and the caller retrying, verify_delay_passed
\* eventually succeeds; and once it has succeeded, every later call succeeds.
C17_DelayEventuallyPassesAndStaysPassed ==
    /\ DelayAttainable => <>(delay_passed.result = OkUnit)
    /\ [][delay_passed.result = OkUnit => delay_passed'.result = OkUnit]_vars

\* C17 witness: a success at a host time and height both later than the
\* earliest ones, of a delay that is not zero.
C17_Witness ==
    /\ delay_passed.result = OkUnit
    /\ connection_end.delay_period > 0
    /\ delay_passed.time > ctx.client_update_time.value + connection_end.delay_period
    /\ delay_passed.height > ctx.client_update_height.value + ctx.block_delay


PacketOperations ==
    {"verify_packet_data", "verify_packet_acknowledgement",
     "verify_next_sequence_recv", "verify_packet_receipt_absence"}

StateOperations ==
    {"verify_client_consensus_state", "verify_connection_state",
     "verify_channel_state", "verify_client_full_state"}

ProofCalls == {"verify_membership", "verify_non_membership"}

ClientReturned == client_result.op # ""

HeightBeyondVerified == client_call.height > client_call.client_state.latest_height

\* C14: every one of the eight operations calls verify_height before
\* anything else, and when the height is beyond the client's verified height
\* it fails with Expired having made no other call: neither the delay check
\* nor a proof verification.
C14_HeightCheckedFirst ==
    ClientReturned =>
        /\ client_result.op \in PacketOperations \cup StateOperations
        /\ client_log # <<>>
        /\ client_log[1].call = "verify_height"
        /\ HeightBeyondVerified =>
              /\ client_result.result = Anyhow(Expired)
              /\ Len(client_log) = 1

\* C14 witness: a receipt-absence call at a height beyond the verified one
\* returned Expired, although its delay has passed and its proof would have
\* been accepted.
C14_Witness ==
    /\ client_result = [op |-> "verify_packet_receipt_absence",
                        result |-> Anyhow(Expired)]
    /\ HeightBeyondVerified
    /\ verify_delay_passed(ctx, client_call.height, connection_end) = OkUnit
    /\ verify_non_membership(connection_end.counterparty_prefix, client_call.proof,
                             client_call.root,
                             PathBytes(ReceiptsPath("transfer", "channel-0", 1))) = OkUnit

\* C15: in the four packet operations a proof is verified only after
\* verify_delay_passed has returned Ok: while the connection delay has not
\* elapsed the operation fails and its proof is never verified.
C15_ProofOnlyAfterDelayPassed ==
    (ClientReturned /\ client_result.op \in PacketOperations) =>
        /\ \A i \in 1..Len(client_log) :
              client_log[i].call \in ProofCalls =>
                  \E j \in 1..(i - 1) :
                      /\ client_log[j].call = "verify_delay_passed"
                      /\ client_log[j].result = OkUnit
        /\ verify_delay_passed(ctx, client_call.height, connection_end) # OkUnit =>
              /\ client_result.result # OkUnit
              /\ \A i \in 1..Len(client_log) : client_log[i].call \notin ProofCalls

\* C15 witness: a packet-data call whose proof verify_membership accepts
\* failed at the delay check, at a height the client has verified.
C15_Witness ==
    /\ client_result.op = "verify_packet_data"
    /\ ~HeightBeyondVerified
    /\ client_result.result = Anyhow(NotEnoughTime)
    /\ Len(client_log) = 2
    /\ client_log[2].call = "verify_delay_passed"
    /\ verify_membership(connection_end.counterparty_prefix, client_call.proof,
                         client_call.root,
                         PathBytes(CommitmentsPath("transfer", "channel-0", 1)),
                         client_call.value) = OkUnit

\* C18: the packet operations verify their proof under the commitment
\* prefix of the connection's counterparty, the other four operations under
\* the prefix the caller passes in.
C18_PacketProofsUnderCounterpartyPrefix ==
    ClientReturned =>
        \A i \in 1..Len(client_log) :
            client_log[i].call \in ProofCalls =>
                client_log[i].prefix =
                    IF client_result.op \in PacketOperations
                    THEN connection_end.counterparty_prefix
                    ELSE client_call.prefix

\* C18 witness: an acknowledgement proof was accepted under the
\* counterparty's prefix in a call whose own prefix is another one.
C18_Witness ==
    /\ client_result = [op |-> "verify_packet_acknowledgement", result |-> OkUnit]
    /\ client_call.prefix # connection_end.counterparty_prefix
    /\ Len(client_log) = 3
    /\ client_log[3].call = "verify_membership"
    /\ client_log[3].prefix = connection_end.counterparty_prefix


\* C19: the canonical path string is an injective function of (path kind,
\* identifiers): two different paths never have the same string, and under
\* one commitment prefix their storage keys prefix || path differ.
C19_PathStringInjective ==
    (path_strings # <<>> /\ path_call.a # path_call.b) =>
        /\ path_strings.a # path_strings.b
        /\ path_strings.key_a # path_strings.key_b

\* C19 witness: the strings of PacketCommitment(transfer, channel-0, 2) and
\* NextSequenceRecv(transfer, channel-0) have been built, and differ.
C19_Witness ==
    /\ path_strings # <<>>
    /\ path_call.a = CommitmentsPath("transfer", "channel-0", 2)
    /\ path_call.b = SeqRecvsPath("transfer", "channel-0")
    /\ path_strings.a =
          <<"commitments", "ports", "transfer", "channels", "channel-0", "sequences", "2">>
    /\ path_strings.b = <<"nextSequenceRecv", "ports", "transfer", "channels", "channel-0">>
    /\ path_strings.key_a # path_strings.key_b

\* The first check of decode_and_verify_finalizes that the inputs of the call
\* fail, in the order the checks are made.
JustificationFailure ==
    IF ~Decoded.ok THEN "decode"
    ELSE IF <<Decoded.value.commit.target_hash, Decoded.value.commit.target_number>>
               # finalized_target THEN "target"
    ELSE IF oracle # "valid" THEN "validate_commit"
    ELSE LET bad == {i \in 1..NumPrecommits : BadSignatureAt(i) \/ BrokenWalkAt(i)}
         IN IF bad # {}
            THEN IF BadSignatureAt(CHOOSE k \in bad : \A i \in bad : k <= i)
                 THEN "signature" ELSE "ancestry"
            ELSE IF HeaderHashSet(justification) # VisitedSet(justification, base_hash)
            THEN "ancestries"
            ELSE "none"

\* The first check of verify_membership that the inputs of the call fail.
MembershipFailure ==
    IF trie_call.root.len # RootLength THEN "root_length"
    ELSE IF ~trie_call.proof.decodes THEN "proof_decode"
    ELSE IF ChildRootCheck.tag = "Ok" THEN "child_root_verifies"
    ELSE IF ChildRootCheck.tag # "RootMismatch" THEN "child_root_extraction"
    ELSE IF LeafCheckUnder(ChildRootCheck.root).tag # "Ok" THEN "leaf"
    ELSE "none"

\* The first check of verify_non_membership that the inputs of the call fail.
NonMembershipFailure ==
    IF trie_call.root.len # RootLength THEN "root_length"
    ELSE IF ~trie_call.proof.decodes THEN "proof_decode"
    ELSE IF ~ProvesAbsent(trie_call.proof.child_trie_root_proof,
                          PrefixedStorageKey(trie_call.prefix), trie_call.root.hash)
    THEN "child_root_absence"
    ELSE IF ~ProvesAbsent(trie_call.proof.child_trie_proof,
                          StorageKey(trie_call.prefix, trie_call.path), trie_call.root.hash)
    THEN "leaf_absence"
    ELSE "none"

\* The first check of verify_delay_passed that the recorded call failed.
DelayFailure ==
    IF ~ctx.client_update_time.found THEN "update_time"
    ELSE IF ~ctx.client_update_height.found THEN "update_height"
    ELSE IF ctx.client_update_time.value + connection_end.delay_period > MaxTime
    THEN "overflow"
    ELSE IF ~TimeConditionMet(delay_passed.time) THEN "time"
    ELSE IF ~BlockConditionMet(delay_passed.height) THEN "blocks"
    ELSE "none"

JustificationChecks ==
    {"decode", "target", "validate_commit", "signature", "ancestry", "ancestries"}

ProofChecks ==
    {"root_length", "proof_decode", "child_root_verifies", "child_root_extraction",
     "leaf", "child_root_absence", "leaf_absence"}

DelayChecks == {"update_time", "update_height", "overflow", "time", "blocks"}

\* The error by which each check is known.
ErrorOfCheck(check) ==
    CASE check = "decode" -> JustificationDecode
      [] check = "target" -> BadJustification(InvalidCommitTarget)
      [] check = "validate_commit" -> BadJustification(InvalidCommit)
      [] check = "signature" -> BadJustification(InvalidSignature)
      [] check = "ancestry" -> BadJustification(InvalidAncestryProof)
      [] check = "ancestries" -> BadJustification(UnusedHeaders)
      [] check = "root_length" -> Anyhow(InvalidRootLength)
      [] check = "proof_decode" -> Anyhow(ProofDecodeFailed)
      [] check = "child_root_verifies" -> Anyhow(UnexpectedChildTrieRoot)
      [] check = "child_root_extraction" -> Anyhow(ChildRootExtractionFailed)
      [] check = "leaf" -> Anyhow(VerificationFailed)
      [] check = "child_root_absence" -> Anyhow(ChildTrieRootVerificationFailed)
      [] check = "leaf_absence" -> Anyhow(ChildTrieVerificationFailed)
      [] check = "update_time" -> Anyhow(ClientUpdateTimeError)
      [] check = "update_height" -> Anyhow(ClientUpdateHeightError)
      [] check = "overflow" -> Anyhow(TimestampOverflowed)
      [] check = "time" -> Anyhow(NotEnoughTime)
      [] check = "blocks" -> Anyhow(NotEnoughBlocks)

\* No two checks are known by the same error.
ErrorsDistinct ==
    \A c, d \in JustificationChecks \cup ProofChecks \cup DelayChecks :
        c # d => ErrorOfCheck(c) # ErrorOfCheck(d)

\* A returned result is Ok when no check fails, the error of the first failing
\* check otherwise.
Reports(returned, failure, ok) ==
    IF failure = "none" THEN returned.tag = ok
    ELSE returned = ErrorOfCheck(failure)

\* C20: every failing check reports an error that tells which check failed:
\* the errors of the checks of justification verification, of the proof
\* layer and of the delay check differ from one another, a call that fails
\* returns the error of the first check its inputs fail, and a call returns
\* success only when no check fails.
C20_ErrorIdentifiesFailedCheck ==
    /\ ErrorsDistinct
    /\ (pc = "done" /\ result # Pending) => Reports(result, JustificationFailure, "Ok")
    /\ membership # NotCalled => Reports(membership, MembershipFailure, "Ok")
    /\ non_membership # NotCalled => Reports(non_membership, NonMembershipFailure, "Ok")
    /\ delay_passed.result # NotCalled => Reports(delay_passed.result, DelayFailure, "Ok")

\* C20 witness: a justification was refused with the ancestry-proof error for
\* its first precommit, whose signature is in order, while a later precommit
\* carries a bad signature.
C20_Witness ==
    /\ pc = "done"
    /\ result = BadJustification(InvalidAncestryProof)
    /\ ~BadSignatureAt(1)
    /\ BrokenWalkAt(1)
    /\ \E i \in 2..NumPrecommits : BadSignatureAt(i)

\* C20 witness in the proof layer: the leaf proof alone fails, and the
\* membership call says so.
C20_LeafFailureSeen ==
    /\ membership = Anyhow(VerificationFailed)
    /\ MembershipFailure = "leaf"
    /\ non_membership = Anyhow(ChildTrieRootVerificationFailed)

\* C20 witness in the delay check: the time has elapsed, the blocks have not.
C20_BlocksFailureSeen ==
    /\ delay_passed.result = Anyhow(NotEnoughBlocks)
    /\ TimeConditionMet(delay_passed.time)

\* C20 witness of a justification cut short.
C20_DecodeFailureSeen ==
    /\ pc = "done"
    /\ result = JustificationDecode
    /\ Len(encoded) >= 5

\* A step leaves the arguments of every invocation as they are: the encoded
\* bytes, the decoded justification (and with it the ancestry index built of
\* its headers), the proof, root, path and value, the host context and the
\* connection end.
InputsUntouched ==
    /\ encoded' = encoded
    /\ finalized_target' = finalized_target
    /\ set_id' = set_id
    /\ justification # NoJustification =>
          /\ justification' = justification
          /\ AncestryChainNew(justification'.votes_ancestries)
                = AncestryChainNew(justification.votes_ancestries)
    /\ trie_call' = trie_call
    /\ ctx' = ctx
    /\ connection_end' = connection_end

\* What an invocation has returned is not changed by the steps of another.
ResultsKept ==
    /\ (pc = "done" /\ result # Pending) => result' = result
    /\ membership # NotCalled => membership' = membership
    /\ non_membership # NotCalled => non_membership' = non_membership
    /\ delay_passed.result # NotCalled => delay_passed'.result = delay_passed.result

\* C21: the verification operations modify neither their inputs nor any
\* shared state: every step of every invocation leaves the inputs of all of
\* them unchanged, the justification and its ancestry index included, and
\* with the invocations interleaved in any order each returns, and keeps,
\* the result its own inputs determine.
C21_InvocationsDoNotInterfere ==
    /\ [][InputsUntouched /\ ResultsKept]_vars
    /\ []((pc = "done" /\ result # Pending) => Reports(result, JustificationFailure, "Ok"))
    /\ [](membership # NotCalled => Reports(membership, MembershipFailure, "Ok"))
    /\ [](non_membership # NotCalled =>
             Reports(non_membership, NonMembershipFailure, "Ok"))
    /\ [](delay_passed.result # NotCalled =>
             Reports(delay_passed.result, DelayFailure, "Ok"))

\* C21 witness: all four invocations have returned, the justification and
\* the membership proof accepted, the same proof refused as non-membership.
C21_Witness ==
    /\ pc = "done"
    /\ result.tag = "Ok"
    /\ result.value = justification
    /\ membership = OkUnit
    /\ non_membership.tag = "Err"
    /\ delay_passed.result = OkUnit

\* The positions of the precommits with the lowest target_number.
LowestNumbered ==
    {i \in 1..NumPrecommits :
        \A k \in 1..NumPrecommits :
            justification.commit.precommits[i].precommit.target_number
                <= justification.commit.precommits[k].precommit.target_number}

\* C22: the base of the ancestry reconstruction is the target hash of the
\* precommit with the lowest target_number, and of several precommits with
\* that number the one that comes first in the commit's list.
C22_BaseIsFirstLowestPrecommit ==
    oracle = "valid" =>
        /\ LowestNumbered # {}
        /\ \E i \in LowestNumbered :
              /\ \A k \in LowestNumbered : i <= k
              /\ base_hash = justification.commit.precommits[i].precommit.target_hash

\* C22 witness: two precommits share the lowest number and name different
\* blocks; the base is the block of the first, which is second to none.
C22_Witness ==
    /\ oracle = "valid"
    /\ NumPrecommits = 2
    /\ LowestNumbered = {1, 2}
    /\ justification.commit.precommits[1].precommit.target_hash
          # justification.commit.precommits[2].precommit.target_hash
    /\ base_hash = justification.commit.precommits[1].precommit.target_hash

\* The positions in the log of the checks the precommit loop made.
LoopEntries == {n \in 1..Len(log) : log[n].check \in {"signature", "ancestry"}}

TargetsBase(i) == justification.commit.precommits[i].precommit.target_hash = base_hash

\* C23: every signed precommit has its signature checked, those whose target
\* is the base too: for them only the ancestry walk is skipped.  The
\* signature of a precommit is checked before its walk and the precommits are
\* taken in list order, so the error reported is that of the first precommit
\* that fails.
C23_SignaturesCheckedInOrder ==
    /\ \A m, n \in LoopEntries :
          m < n => \/ log[m].at < log[n].at
                   \/ /\ log[m].at = log[n].at
                      /\ log[m].check = "signature"
                      /\ log[n].check = "ancestry"
    /\ \A n \in LoopEntries :
          /\ log[n].check = "ancestry" =>
                /\ ~TargetsBase(log[n].at)
                /\ \E m \in 1..(n - 1) : log[m] = Logged("signature", log[n].at)
          /\ \A i \in 1..(log[n].at - 1) :
                /\ \E m \in 1..(n - 1) : log[m] = Logged("signature", i)
                /\ ~BadSignatureAt(i)
                /\ ~BrokenWalkAt(i)
                /\ TargetsBase(i) <=> ~\E m \in 1..(n - 1) : log[m] = Logged("ancestry", i)
    /\ (pc = "done" /\ result.tag = "Ok") =>
          \A i \in 1..NumPrecommits :
              /\ \E m \in LoopEntries : log[m] = Logged("signature", i)
              /\ ~BadSignatureAt(i)
    /\ (pc = "done" /\ oracle = "valid") =>
          \A i \in 1..NumPrecommits :
              (/\ BadSignatureAt(i) \/ BrokenWalkAt(i)
               /\ \A k \in 1..(i - 1) : ~BadSignatureAt(k) /\ ~BrokenWalkAt(k))
              => result = IF BadSignatureAt(i) THEN BadJustification(InvalidSignature)
                          ELSE BadJustification(InvalidAncestryProof)

\* C23 witness: the second precommit votes for the base and carries a bad
\* signature; the first is in order; the call ended with the signature error
\* and no walk was made.
C23_Witness ==
    /\ pc = "done"
    /\ oracle = "valid"
    /\ NumPrecommits = 2
    /\ TargetsBase(2)
    /\ BadSignatureAt(2)
    /\ result = BadJustification(InvalidSignature)
    /\ log[Len(log)] = Logged("signature", 2)
    /\ \A n \in 1..Len(log) : log[n].check # "ancestry"

\* The headers the walk was given.
WalkHeaders == ancestry_call.headers

\* C24: ancestry(base, block) follows the parent links from block and
\* returns, nearest to block first, the hashes it passes before base, base
\* left out; the route of block = base is empty; it returns NotDescendent
\* exactly when the walk comes to a hash that is not base and has no header
\* in the index.  With block itself the route holds every hash from block
\* (inclusive) to base (exclusive).
C24_RouteIsParentChainWithoutBase ==
    ancestry_result.returned =>
        LET base == ancestry_call.base
            block == ancestry_call.block
            route == ancestry_result.route
            path == <<block>> \o route
        IN /\ ancestry_result.ok <=> Connected(WalkHeaders, base, block)
           /\ ~ancestry_result.ok <=>
                 \E h \in Between(WalkHeaders, base, block) : ~HasHeader(WalkHeaders, h)
           /\ (ancestry_result.ok /\ block = base) => route = <<>>
           /\ (ancestry_result.ok /\ block # base) =>
                 /\ base \notin Range(path)
                 /\ \A h \in Range(path) : HasHeader(WalkHeaders, h)
                 /\ \A n \in 1..(Len(path) - 1) :
                       path[n + 1] = ParentOf(WalkHeaders, path[n])
                 /\ ParentOf(WalkHeaders, path[Len(path)]) = base
                 /\ Range(path) = Between(WalkHeaders, base, block)
           /\ [ok |-> ancestry_result.ok, route |-> route]
                 = Ancestry(AncestryChainNew(WalkHeaders), base, block)

\* C24 witness: the walk from block 4 to block 0 returned the route of
\* blocks 2 and 1, in that order.
C24_Witness ==
    /\ ancestry_call.base = 0
    /\ ancestry_call.block = 4
    /\ ancestry_result = AncestryOk(<<2, 1>>)

\* C24 witness of NotDescendent: the header of the block is there, the one of
\* its parent is not.
C24_NotDescendentSeen ==
    /\ ancestry_result = NotDescendent
    /\ HasHeader(WalkHeaders, ancestry_call.block)
    /\ ancestry_walk.route # <<>>

\* A GRANDPA consensus item that carries a log of the given kind.
GrandpaLog(item, tag) ==
    /\ item.kind = "Consensus"
    /\ item.engine = GRANDPA_ENGINE_ID
    /\ item.log.tag = tag

\* The positions of such items in the digest searched.
GrandpaLogsAt(tag) == {i \in 1..Len(digest_call) : GrandpaLog(digest_call[i], tag)}

FirstAt(positions) == CHOOSE i \in positions : \A k \in positions : i <= k

\* C25: find_scheduled_change and find_forced_change return the change of
\* the first GRANDPA consensus item of the digest that carries a log of the
\* kind they look for, in the order of the header's digest; other items are
\* skipped, later matches are ignored, and nothing is returned when no item
\* matches.
C25_FirstMatchingDigestReturned ==
    /\ scheduled_change.called =>
          IF GrandpaLogsAt("ScheduledChange") = {}
          THEN ~scheduled_change.option.some
          ELSE /\ scheduled_change.option.some
               /\ scheduled_change.option.value =
                     digest_call[FirstAt(GrandpaLogsAt("ScheduledChange"))].log.change
    /\ forced_change.called =>
          IF GrandpaLogsAt("ForcedChange") = {}
          THEN ~forced_change.option.some
          ELSE /\ forced_change.option.some
               /\ forced_change.option.value =
                     <<digest_call[FirstAt(GrandpaLogsAt("ForcedChange"))].log.delay,
                       digest_call[FirstAt(GrandpaLogsAt("ForcedChange"))].log.change>>

\* C25 witness: the digest holds two scheduled changes of GRANDPA with
\* different delays and the search returned the first.
C25_Witness ==
    /\ scheduled_change.called
    /\ GrandpaLogsAt("ScheduledChange") = {1, 2}
    /\ digest_call[1].log.change # digest_call[2].log.change
    /\ scheduled_change.option.some
    /\ scheduled_change.option.value = digest_call[1].log.change

\* C25 witness of a skipped item: a scheduled change of another engine comes
\* first and the forced change of GRANDPA behind it is returned.
C25_SkippedSeen ==
    /\ forced_change.called
    /\ scheduled_change.called
    /\ digest_call[1].engine = OtherEngineId
    /\ digest_call[1].log.tag = "ForcedChange"
    /\ GrandpaLogsAt("ForcedChange") = {2}
    /\ forced_change.option.some
    /\ ~scheduled_change.option.some

\* C26: every walk of AncestryChain::ancestry returns, with a route or with
\* NotDescendent, after no more turns than there are headers, and every
\* verification of a justification returns, also when its headers do not
\* lead to the base.
C26_WalkAndVerificationTerminate ==
    /\ [](ancestry_call # <<>> =>
             Len(ancestry_walk.route) <= Len(ancestry_call.headers))
    /\ (ancestry_call # <<>>) ~> ancestry_result.returned
    /\ (encoded # <<>>) ~> (pc = "done" /\ result # Pending)

\* C26 witness: the walk from block 4 passed block 2 and stopped with
\* NotDescendent at block 1, whose header is missing.
C26_Witness ==
    /\ ancestry_call # <<>>
    /\ ancestry_call.block = 4
    /\ ancestry_call.base = 0
    /\ ancestry_walk = [current_hash |-> 1, route |-> <<2, 1>>]
    /\ ancestry_result = NotDescendent

\* C26 witness of a verification: a justification whose headers do not lead
\* from a precommit's target to the base was rejected.
C26_BrokenWalkRejected ==
    /\ pc = "done"
    /\ result.tag = "Err"
    /\ idx \in 1..NumPrecommits
    /\ BrokenWalkAt(idx)

\* What the oracle is assumed to have required of a commit it accepted: the
\* headers of the justification lead from every precommit's target to the
\* commit's target.
OracleSawRoutes ==
    \A i \in 1..NumPrecommits :
        Connected(justification.votes_ancestries, justification.commit.target_hash,
                  justification.commit.precommits[i].precommit.target_hash)

Accepted == pc = "done" /\ result.tag = "Ok"

\* C27: an accepted justification never has the base hash in its visited
\* set, so it never carries the header of the base block; when the oracle
\* accepted only on routes from every precommit's target to the commit's
\* target, the base of an accepted justification is the commit's target.
C27_AcceptedBaseIsCommitTarget ==
    Accepted =>
        /\ base_hash \notin visited_hashes
        /\ ~HasHeader(justification.votes_ancestries, base_hash)
        /\ OracleSawRoutes => base_hash = justification.commit.target_hash

\* C27 witness: a justification was accepted whose headers lead from a
\* precommit's target above the base down to the commit's target.
C27_Witness ==
    /\ Accepted
    /\ OracleSawRoutes
    /\ visited_hashes # {}
    /\ base_hash = justification.commit.target_hash

\* C27 witness of the assumption's part: the oracle accepted a commit whose
\* precommits have no route to the commit's target, and the base of the
\* accepted justification is another block than the commit's target.
C27_UnassumedOracleSeen ==
    /\ Accepted
    /\ ~OracleSawRoutes
    /\ base_hash # justification.commit.target_hash

\* C27 witness of the rejection: the justification carries the header of its
\* base block and was rejected.
C27_BaseHeaderRejected ==
    /\ pc = "done"
    /\ result.tag = "Err"
    /\ oracle = "valid"
    /\ idx > NumPrecommits
    /\ HasHeader(justification.votes_ancestries, base_hash)

\* What a call returned, the justification of an Ok left aside.
Outcome(r) == <<r.tag, r.variant, r.msg>>

Resubmitted == previous # <<>> /\ pc = "done"

\* C28: a justification handed in again with its headers in another order,
\* or with a header repeated, is accepted or rejected as before, with the
\* same error, when the oracle's verdict on the commit is the same.
C28_OutcomeDependsOnHeaderSet ==
    (Resubmitted /\ oracle = previous.oracle) =>
        Outcome(result) = Outcome(previous.result)

\* C28 witness: a justification accepted with its needed header listed once
\* was accepted again with that header listed twice.
C28_Witness ==
    /\ Resubmitted
    /\ result.tag = "Ok"
    /\ previous.result.tag = "Ok"
    /\ Len(previous.headers) = 1
    /\ Len(justification.votes_ancestries) = 2

\* C28 witness of a reordering: two headers, one of them unused, were handed
\* in again the other way round and rejected both times.
C28_ReorderedSeen ==
    /\ Resubmitted
    /\ result.tag = "Err"
    /\ oracle = "valid"
    /\ previous.oracle = "valid"
    /\ Len(previous.headers) = 2
    /\ Len(justification.votes_ancestries) = 2
    /\ justification.votes_ancestries # previous.headers

\* C29: a delay check that returned Ok compared the host's clocks with sums
\* that fit their range: processed_time + delay_period_time is a timestamp
\* and processed_height + delay_period_blocks is a height.  (A sum out of
\* range makes the call fail.)
C29_Original ==
    delay_passed.result = OkUnit =>
        /\ ctx.client_update_time.value + connection_end.delay_period <= MaxTime
        /\ ctx.client_update_height.value + ctx.block_delay < HeightModulus

\* C29, the time sum alone: a delay check never returns Ok when
\* processed_time + delay_period_time is out of range.
C29_TimeSumChecked ==
    delay_passed.result = OkUnit =>
        ctx.client_update_time.value + connection_end.delay_period <= MaxTime

\* C29, the build that traps: the height sum out of range ends in a panic.
C29_TrappedWhenChecked ==
    (overflow_checks /\ delay_passed.result = OkUnit) =>
        ctx.client_update_height.value + ctx.block_delay < HeightModulus

\* C29 witness of the wraparound: the call returned Ok at host height 0 for an
\* update at the last height and a delay of one block.
C29_WrappedSeen ==
    /\ delay_passed.result = OkUnit
    /\ delay_passed.height = 0
    /\ ctx.client_update_height.value = HeightModulus - 1
    /\ ctx.block_delay = 1

\* The notifications of a kind completed before the last query.
NotifiedBefore(kind) ==
    {i \in 1..queried.after : notifications[i].kind = kind}

LastOf(positions) == CHOOSE i \in positions : \A k \in positions : k <= i

\* C30: has_undelivered_sequences(kind), called after an
\* on_undelivered_sequences(has, kind) has completed, returns the has of the
\* most recent such notification.
C30_Original ==
    (queried # <<>> /\ NotifiedBefore(queried.kind) # {}) =>
        queried.answer = notifications[LastOf(NotifiedBefore(queried.kind))].has

\* C30, what the client does instead: a query returns the flag the client
\* started with, whatever it has been notified of.
C30_FlagsNeverChange ==
    [][undelivered # <<>> => undelivered' = undelivered]_vars

\* C30 witness of the stale flag: the client was notified of undelivered
\* receives and answers that there are none.
C30_StaleSeen ==
    /\ queried # <<>>
    /\ queried.kind = "Recvs"
    /\ queried.after = 1
    /\ notifications[1] = [has |-> TRUE, kind |-> "Recvs"]
    /\ queried.answer = FALSE

============================================================================
